---- MODULE Spec2Model ----
(***************************************************************************)
(* Blog backend (Express + Sequelize + MySQL): the request handlers of the *)
(* controllers as atomic actions over the database tables.  One request is *)
(* handled at a time; `resp` is the response of the last request.          *)
(***************************************************************************)
EXTENDS Integers, Sequences, FiniteSets, TLC

VARIABLES
  seq,          \* per table: the last AUTO_INCREMENT id handed out
  articles,     \* id -> row of table articles
  categories,   \* id -> row of table categories
  tags,         \* id -> row of table tags
  article_tags, \* rows of the join table: <<article_id, tag_id>>
  moments,      \* id -> row of table moments
  projects,     \* id -> row of table projects
  media,        \* id -> row of table media
  files,        \* media ids whose stored file is still on disk
  comments,     \* id -> row of table comments
  messages,     \* id -> row of table messages
  pending,      \* the requests that have read their row and not yet written
  resp          \* the response sent for the last request

tables == <<articles, categories, tags, article_tags, moments, projects,
            media, files, comments, messages>>
vars == <<seq, articles, categories, tags, article_tags, moments, projects,
          media, files, comments, messages, resp, pending>>

(***************************************************************************)
(* Bounds                                                                  *)
(***************************************************************************)
\* rows ever inserted into one table (AUTO_INCREMENT values 1..MaxRows)
MaxRows == 2
\* length of an id list carried by a batch request
MaxList == 2

Ids == 1..MaxRows
\* comments, and messages, ever stored: a reply to a reply takes three of them
MaxThread == 3
ThreadIds == 1..MaxThread
\* the value a view counter is followed up to
MaxViews == 2

(***************************************************************************)
(* Values                                                                  *)
(***************************************************************************)
\* SQL NULL in a nullable integer column
NULL == 0

\* the principals an authenticated request can carry (req.user)
AdminUser == [id |-> 1, role |-> "admin"]
Principals == {AdminUser, [id |-> 2, role |-> "user"], [id |-> 3, role |-> "user"]}
\* the users who own content, and the users who send requests on it
Owners == {u \in Principals : u.id \in {2, 3}}
Callers == {u \in Principals : u.id \in {1, 2}}
\* req.user of a request without a resolved principal
NoUser == [id |-> NULL, role |-> "none"]

\* an optional request field: {} when absent, {v} when present
Opt(S) == {{}} \cup {{x} : x \in S}
Present(o) == o # {}
Val(o) == CHOOSE x \in o : TRUE

\* a value accepted by isInt({min: 1}): the integer n or the string "n"
IntLike(S) == {[n |-> i, str |-> s] : i \in S, s \in BOOLEAN}

Range(s) == {s[i] : i \in 1..Len(s)}
\* the id lists a batch request can carry: 1..MaxList ids
IdLists == UNION {[1..n -> Ids] : n \in 1..MaxList}

\* a destroy that removes no row
RemoveNothing(t, S) == t
Remove(t, S) == [i \in DOMAIN t \ S |-> t[i]]
Insert(t, i, row) == [j \in DOMAIN t \cup {i} |-> IF j = i THEN row ELSE t[j]]

\* Array.prototype.includes: strict equality, a string never equals a number
Includes(list, v) == ~v.str /\ v.n \in Range(list)

(***************************************************************************)
(* Responses (ApiResponse)                                                 *)
(***************************************************************************)
\* tx: for the batch handlers of moments and projects, which open their
\* transaction first, what has become of it when the answer is sent: "open",
\* "commit" or "rollback" ("none" for the other handlers)
Response(op, user, code) ==
  [op |-> op, code |-> code,
   count |-> 0, total |-> 0, extra |-> 0, tcount |-> 0,
   errors |-> {}, failures |-> <<>>, items |-> {}, nested |-> {},
   page |-> 0, limit |-> 0, totalPages |-> 0, tx |-> "none"]

(***************************************************************************)
(* utils/pagination and ApiResponse.successWithPagination                  *)
(***************************************************************************)
\* A query-string value: non-numeric text, or the text of the integer n
QueryValue(S) == {[text |-> TRUE, n |-> 0]} \cup {[text |-> FALSE, n |-> i] : i \in S}
\* a request without page and without limit
NoQuery == [page |-> {}, limit |-> {}]

\* parseInt(v) || d: d for an absent value, for text (NaN) and for 0
parseIntOr(v, d) ==
  IF ~Present(v) \/ Val(v).text \/ Val(v).n = 0 THEN d ELSE Val(v).n

Max(a, b) == IF a >= b THEN a ELSE b
Min(a, b) == IF a <= b THEN a ELSE b

\* getPagination that takes the limit as sent
getPaginationUnclamped(query) ==
  LET page == Max(1, parseIntOr(query.page, 1))
      limit == parseIntOr(query.limit, 10)
  IN [page |-> page, limit |-> limit, offset |-> (page - 1) * limit]

getPagination(query) ==
  LET page == Max(1, parseIntOr(query.page, 1))
      limit == Min(100, Max(1, parseIntOr(query.limit, 10)))
  IN [page |-> page, limit |-> limit, offset |-> (page - 1) * limit]

\* Math.ceil(total / limit) for total >= 0 and limit > 0
Ceil(total, limit) == (total + limit - 1) \div limit

\* rows: the ids of the page; pagination: page, limit and total
successWithPagination(op, user, rows, pagination) ==
  [Response(op, user, 200) EXCEPT
     !.items = rows,
     !.page = pagination.page,
     !.limit = pagination.limit,
     !.total = pagination.total,
     !.totalPages = Ceil(pagination.total, pagination.limit)]

\* one entry of an `errors` array: the entity and why it was skipped
Err(id, reason) == [id |-> id, reason |-> reason]

\* a table without rows
Empty == [i \in {} |-> NULL]

Init ==
  /\ seq = [article |-> 0, category |-> 0, tag |-> 0, moment |-> 0,
            project |-> 0, media |-> 0, comment |-> 0, message |-> 0]
  /\ articles = Empty
  /\ categories = Empty
  /\ tags = Empty
  /\ article_tags = {}
  /\ moments = Empty
  /\ projects = Empty
  /\ media = Empty
  /\ files = {}
  /\ comments = Empty
  /\ messages = Empty
  /\ pending = <<>>
  /\ resp = Response("none", NoUser, 0)

(***************************************************************************)
(* Foreign keys created by sequelize.sync() from the associations          *)
(***************************************************************************)
\* articles.category_id -> categories.id, ON DELETE SET NULL
CategoryFkOk(category_id, cats) == category_id = NULL \/ category_id \in DOMAIN cats
ArticlesAfterCategoryDelete(arts, S) ==
  [i \in DOMAIN arts |->
     IF arts[i].category_id \in S THEN [arts[i] EXCEPT !.category_id = NULL]
                                  ELSE arts[i]]
\* article_tags.(article_id, tag_id), ON DELETE CASCADE on both sides
JoinAfterTagDelete(rows, S) == {r \in rows : r[2] \notin S}
JoinAfterArticleDelete(rows, S) == {r \in rows : r[1] \notin S}
\* comments.article_id -> articles.id, ON DELETE CASCADE
CommentsAfterArticleDelete(cs, S) == Remove(cs, {c \in DOMAIN cs : cs[c].article_id \in S})

\* the whole effect of deleting the articles S
DestroyArticles(S) ==
  /\ articles' = Remove(articles, S)
  /\ article_tags' = JoinAfterArticleDelete(article_tags, S)
  /\ comments' = CommentsAfterArticleDelete(comments, S)

(***************************************************************************)
(* Authorization                                                           *)
(***************************************************************************)
\* the owner-or-admin test every owned resource repeats before a mutation
\* (variant: a row without owner passes the test for everybody)
canActOnOrphan(user, owner_id) ==
  user.id = owner_id \/ user.role = "admin" \/ owner_id = NULL
canAct(user, owner_id) == user.id = owner_id \/ user.role = "admin"

(***************************************************************************)
(* articleController                                                       *)
(***************************************************************************)
\* article.setTags(tag_ids): obsolete join rows are removed and the missing
\* ones inserted by one INSERT, which the foreign key on tag_id rejects whole
SetTags(rows, id, tag_ids) ==
  LET kept == {r \in rows : r[1] # id \/ r[2] \in tag_ids}
  IN IF tag_ids \subseteq DOMAIN tags
       THEN kept \cup {<<id, t>> : t \in tag_ids}
       ELSE kept

\* createArticle that never stores a publication time
createArticleUnstamped(user, category_id, tag_ids, status, is_top, now) ==
  LET id == seq.article + 1
      cat == IF Present(category_id) THEN Val(category_id).n ELSE NULL
      row == [author_id |-> user.id,
              category_id |-> cat,
              status |-> IF Present(status) THEN Val(status) ELSE "draft",
              is_top |-> IF Present(is_top) THEN Val(is_top) ELSE FALSE,
              views |-> 0,
              published_at |-> NULL]
      withTags == Present(tag_ids) /\ Val(tag_ids) # {}
  IN /\ seq.article < MaxRows
     /\ IF ~CategoryFkOk(cat, categories)
          THEN /\ resp' = Response("createArticle", user, 400)
               /\ UNCHANGED <<seq, tables, pending>>
          ELSE /\ seq' = [seq EXCEPT !.article = id]
               /\ articles' = Insert(articles, id, row)
               /\ article_tags' = IF withTags THEN SetTags(article_tags, id, Val(tag_ids))
                                              ELSE article_tags
               /\ resp' = IF withTags /\ ~(Val(tag_ids) \subseteq DOMAIN tags)
                            THEN Response("createArticle", user, 400)
                            ELSE Response("createArticle", user, 201)
               /\ UNCHANGED <<pending, categories, tags, moments, projects, media, files,
                              comments, messages>>

createArticle(user, category_id, tag_ids, status, is_top, now) ==
  LET id == seq.article + 1
      cat == IF Present(category_id) THEN Val(category_id).n ELSE NULL
      row == [author_id |-> user.id,
              category_id |-> cat,
              status |-> IF Present(status) THEN Val(status) ELSE "draft",
              is_top |-> IF Present(is_top) THEN Val(is_top) ELSE FALSE,
              views |-> 0,
              published_at |-> IF status = {"published"} THEN now ELSE NULL]
      withTags == Present(tag_ids) /\ Val(tag_ids) # {}
  IN /\ seq.article < MaxRows
     /\ IF ~CategoryFkOk(cat, categories)
          THEN /\ resp' = Response("createArticle", user, 400)
               /\ UNCHANGED <<seq, tables, pending>>
          ELSE /\ seq' = [seq EXCEPT !.article = id]
               /\ articles' = Insert(articles, id, row)
               /\ article_tags' = IF withTags THEN SetTags(article_tags, id, Val(tag_ids))
                                              ELSE article_tags
               /\ resp' = IF withTags /\ ~(Val(tag_ids) \subseteq DOMAIN tags)
                            THEN Response("createArticle", user, 400)
                            ELSE Response("createArticle", user, 201)
               /\ UNCHANGED <<pending, categories, tags, moments, projects, media, files,
                              comments, messages>>

updateArticle(user, id, category_id, tag_ids, status, is_top, now) ==
  IF id \notin DOMAIN articles
    THEN /\ resp' = Response("updateArticle", user, 404)
         /\ UNCHANGED <<seq, tables, pending>>
  ELSE IF ~canAct(user, articles[id].author_id)
    THEN /\ resp' = Response("updateArticle", user, 403)
         /\ UNCHANGED <<seq, tables, pending>>
  ELSE
    LET old == articles[id]
        a1 == IF Present(category_id) THEN [old EXCEPT !.category_id = Val(category_id).n] ELSE old
        a2 == IF Present(is_top) THEN [a1 EXCEPT !.is_top = Val(is_top)] ELSE a1
        a3 == IF Present(status)
                THEN [a2 EXCEPT !.status = Val(status),
                                !.published_at =
                                   IF old.status = "draft" /\ Val(status) = "published"
                                      /\ old.published_at = NULL
                                     THEN now ELSE old.published_at]
                ELSE a2
    IN IF ~CategoryFkOk(a3.category_id, categories)
         THEN /\ resp' = Response("updateArticle", user, 400)
              /\ UNCHANGED <<seq, tables, pending>>
         ELSE /\ articles' = [articles EXCEPT ![id] = a3]
              /\ article_tags' = IF Present(tag_ids) THEN SetTags(article_tags, id, Val(tag_ids))
                                                     ELSE article_tags
              /\ resp' = IF Present(tag_ids) /\ ~(Val(tag_ids) \subseteq DOMAIN tags)
                           THEN Response("updateArticle", user, 400)
                           ELSE [Response("updateArticle", user, 200) EXCEPT !.items = {id}]
              /\ UNCHANGED <<pending, seq, categories, tags, moments, projects, media, files,
                             comments, messages>>

deleteArticle(user, id) ==
  IF id \notin DOMAIN articles
    THEN /\ resp' = Response("deleteArticle", user, 404)
         /\ UNCHANGED <<seq, tables, pending>>
  ELSE IF ~canAct(user, articles[id].author_id)
    THEN /\ resp' = Response("deleteArticle", user, 403)
         /\ UNCHANGED <<seq, tables, pending>>
  ELSE /\ DestroyArticles({id})
       /\ resp' = Response("deleteArticle", user, 200)
       /\ UNCHANGED <<pending, seq, categories, tags, moments, projects, media, files, messages>>

\* the rows of WHERE id IN (ids)
FoundIds(t, ids) == Range(ids) \cap DOMAIN t

\* the permission loop of the article batch handlers
\* (variant: the loop lets every found article through)
ArticlePermittedAll(user, found) == found
ArticlePermitted(user, found) == {i \in found : canAct(user, articles[i].author_id)}
\* (variant: the skipped articles are not reported)
ArticleErrorsNone(user, found) == {}
ArticleErrors(user, found) ==
  {Err(i, "no permission") : i \in found \ ArticlePermitted(user, found)}

\* fail: the DELETE statement raises a database error
batchDeleteArticles(user, ids, fail) ==
  LET found == FoundIds(articles, ids)
      deletableIds == ArticlePermitted(user, found)
  IN IF found = {}
       THEN /\ resp' = Response("batchDeleteArticles", user, 400)
            /\ UNCHANGED <<seq, tables, pending>>
     ELSE IF fail
       THEN \* transaction.rollback(); throw error
            /\ resp' = Response("batchDeleteArticles", user, 500)
            /\ UNCHANGED <<seq, tables, pending>>
     ELSE /\ DestroyArticles(deletableIds)
          /\ resp' = [Response("batchDeleteArticles", user, 200) EXCEPT
                        !.count = Cardinality(deletableIds),
                        !.total = Len(ids),
                        !.errors = ArticleErrors(user, found)]
          /\ UNCHANGED <<pending, seq, categories, tags, moments, projects, media, files, messages>>

\* fail: one of the UPDATE statements raises a database error
articleBatchUpdateStatus(user, ids, status, now, fail) ==
  LET found == FoundIds(articles, ids)
      updatableIds == ArticlePermitted(user, found)
      publish(a) == [a EXCEPT !.status = status,
                              !.published_at = IF a.published_at = NULL THEN now
                                               ELSE a.published_at]
      draft(a) == [a EXCEPT !.status = status]
  IN IF found = {}
       THEN /\ resp' = Response("articleBatchUpdateStatus", user, 400)
            /\ UNCHANGED <<seq, tables, pending>>
     ELSE IF fail
       THEN /\ resp' = Response("articleBatchUpdateStatus", user, 500)
            /\ UNCHANGED <<seq, tables, pending>>
     ELSE /\ articles' = IF status = "published"
                           THEN [i \in DOMAIN articles |->
                                   IF i \in updatableIds THEN publish(articles[i])
                                                         ELSE articles[i]]
                           ELSE [i \in DOMAIN articles |->
                                   IF i \in updatableIds THEN draft(articles[i])
                                                         ELSE articles[i]]
          /\ resp' = [Response("articleBatchUpdateStatus", user, 200) EXCEPT
                        !.count = Cardinality(updatableIds),
                        !.total = Len(ids),
                        !.errors = ArticleErrors(user, found)]
          /\ UNCHANGED <<pending, seq, categories, tags, article_tags, moments, projects, media,
                         files, comments, messages>>

batchUpdateTop(user, ids, is_top) ==
  LET found == FoundIds(articles, ids)
      updatableIds == IF user.role = "admin" THEN found ELSE {}
      top(a) == [a EXCEPT !.is_top = is_top]
  IN IF found = {}
       THEN /\ resp' = Response("batchUpdateTop", user, 400)
            /\ UNCHANGED <<seq, tables, pending>>
     ELSE IF updatableIds = {}
       THEN /\ resp' = Response("batchUpdateTop", user, 403)
            /\ UNCHANGED <<seq, tables, pending>>
     ELSE /\ articles' = [i \in DOMAIN articles |->
                             IF i \in updatableIds THEN top(articles[i]) ELSE articles[i]]
          /\ resp' = [Response("batchUpdateTop", user, 200) EXCEPT
                        !.count = Cardinality(updatableIds),
                        !.total = Len(ids),
                        !.errors = {Err(i, "admin only") : i \in found \ updatableIds}]
          /\ UNCHANGED <<pending, seq, categories, tags, article_tags, moments, projects, media,
                         files, comments, messages>>

\* ORDER BY is_top DESC, published_at DESC: a sorts strictly before b (a null
\* published_at sorts last)
ArticleBefore(a, b) ==
  \/ articles[a].is_top /\ ~articles[b].is_top
  \/ /\ articles[a].is_top = articles[b].is_top
     /\ articles[a].published_at > articles[b].published_at

\* The pages a query with LIMIT and OFFSET may return: the orders of `rows`
\* that respect ORDER BY (rows that tie come in any order), cut to the
\* positions offset + 1 .. offset + limit
ArticlePages(rows, limit, offset) ==
  LET n == Cardinality(rows)
      orders == {f \in [1..n -> rows] :
                   /\ \A i, j \in 1..n : i # j => f[i] # f[j]
                   /\ \A i, j \in 1..n : i < j => ~ArticleBefore(f[j], f[i])}
  IN {{f[i] : i \in {k \in 1..n : offset < k /\ k <= offset + limit}} : f \in orders}

\* GET /articles without category_id, tag_id and keyword; query: page and
\* limit as sent.  items: the articles of the answer.
getArticles(user, status, query) ==
  LET p == getPagination(query)
      shown == IF Present(status) /\ user.role = "admin" THEN Val(status) ELSE "published"
      rows == {a \in DOMAIN articles : articles[a].status = shown}
  IN /\ \E page \in ArticlePages(rows, p.limit, p.offset) :
          resp' = successWithPagination("getArticles", user, page,
                    [page |-> p.page, limit |-> p.limit, total |-> Cardinality(rows)])
     /\ UNCHANGED <<seq, tables, pending>>

\* getArticleById that shows every article
getArticleByIdOpen(user, id) ==
  IF id \notin DOMAIN articles
    THEN /\ resp' = Response("getArticleById", user, 404)
         /\ UNCHANGED <<seq, tables, pending>>
  ELSE /\ articles[id].views < MaxViews
       /\ articles' = [articles EXCEPT ![id].views = @ + 1]
       /\ resp' = [Response("getArticleById", user, 200) EXCEPT
                     !.items = {id},
                     !.nested = {c \in DOMAIN comments :
                                   comments[c].article_id = id /\ comments[c].is_approved}]
       /\ UNCHANGED <<pending, seq, categories, tags, article_tags, moments, projects, media,
                      files, comments, messages>>

\* items: the article of the answer; nested: the comments included in it
getArticleById(user, id) ==
  IF id \notin DOMAIN articles
    THEN /\ resp' = Response("getArticleById", user, 404)
         /\ UNCHANGED <<seq, tables, pending>>
  ELSE IF articles[id].status = "draft" /\ user.id # articles[id].author_id
          /\ user.role # "admin"
    THEN /\ resp' = Response("getArticleById", user, 403)
         /\ UNCHANGED <<seq, tables, pending>>
  ELSE /\ articles[id].views < MaxViews
       /\ articles' = [articles EXCEPT ![id].views = @ + 1]
       /\ resp' = [Response("getArticleById", user, 200) EXCEPT
                     !.items = {id},
                     !.nested = {c \in DOMAIN comments :
                                   comments[c].article_id = id /\ comments[c].is_approved}]
       /\ UNCHANGED <<pending, seq, categories, tags, article_tags, moments, projects, media,
                      files, comments, messages>>

(***************************************************************************)
(* categoryController (routes: authenticate, authorize('admin'))           *)
(***************************************************************************)
\* Article.count({ where: { category_id } })
ArticleCount(arts, cats) == Cardinality({a \in DOMAIN arts : arts[a].category_id \in cats})

createCategory(user, sort_order) ==
  /\ seq.category < MaxRows
  /\ seq' = [seq EXCEPT !.category = seq.category + 1]
  /\ categories' = Insert(categories, seq.category + 1, [sort_order |-> sort_order])
  /\ resp' = Response("createCategory", user, 201)
  /\ UNCHANGED <<pending, articles, tags, article_tags, moments, projects, media, files,
                 comments, messages>>

\* Category.destroy of the categories S, with the foreign key's SET NULL
DestroyCategories(S) ==
  /\ categories' = Remove(categories, S)
  /\ articles' = ArticlesAfterCategoryDelete(articles, S)

\* the article-count check that guards a category delete
\* (variant: the check tolerates one article)
CategoryInUseOverOne(id) == ArticleCount(articles, {id}) > 1
CategoryInUse(id) == ArticleCount(articles, {id}) > 0

deleteCategory(user, id) ==
  IF id \notin DOMAIN categories
    THEN /\ resp' = Response("deleteCategory", user, 404)
         /\ UNCHANGED <<seq, tables, pending>>
  ELSE IF CategoryInUse(id)
    THEN /\ resp' = [Response("deleteCategory", user, 400) EXCEPT
                       !.extra = ArticleCount(articles, {id})]
         /\ UNCHANGED <<seq, tables, pending>>
  ELSE /\ DestroyCategories({id})
       /\ resp' = Response("deleteCategory", user, 200)
       /\ UNCHANGED <<pending, seq, tags, article_tags, moments, projects, media, files,
                      comments, messages>>

\* (variant: the categories in use are not reported)
CategoryErrorsNone(found) == {}
CategoryErrors(found) == {Err(i, "has articles") : i \in {c \in found : CategoryInUse(c)}}

batchDeleteCategories(user, ids) ==
  LET found == FoundIds(categories, ids)
      deletableIds == {c \in found : ~CategoryInUse(c)}
  IN IF found = {}
       THEN /\ resp' = Response("batchDeleteCategories", user, 400)
            /\ UNCHANGED <<seq, tables, pending>>
     ELSE IF deletableIds = {}
       THEN /\ resp' = [Response("batchDeleteCategories", user, 400) EXCEPT
                          !.errors = CategoryErrors(found)]
            /\ UNCHANGED <<seq, tables, pending>>
     ELSE /\ DestroyCategories(deletableIds)
          /\ resp' = [Response("batchDeleteCategories", user, 200) EXCEPT
                        !.count = Cardinality(deletableIds),
                        !.total = Len(ids),
                        !.errors = CategoryErrors(found)]
          /\ UNCHANGED <<pending, seq, tags, article_tags, moments, projects, media, files,
                         comments, messages>>

\* the UPDATE statements of the first n pairs, one after the other
RECURSIVE ApplyOrders(_, _, _)
ApplyOrders(cats, orders, n) ==
  IF n = 0 THEN cats
  ELSE LET prev == ApplyOrders(cats, orders, n - 1)
           orderItem == orders[n]
       IN IF orderItem.id \in DOMAIN prev
            THEN [prev EXCEPT ![orderItem.id].sort_order = orderItem.sort_order]
            ELSE prev

\* orders is never empty (batchUpdateOrderValidation).  fail: the statement
\* that raises a database error: an UPDATE of the transaction ("update"), the
\* findAll that follows the commit ("reload"), or none ("none").  The rollback
\* in the catch block of a committed transaction throws in its turn; either
\* error reaches the error handler, which answers 500.
batchUpdateOrder(user, orders, fail) ==
  LET categoryIds == [i \in DOMAIN orders |-> orders[i].id]
      found == FoundIds(categories, categoryIds)
  IN IF Cardinality(found) # Len(categoryIds)
       THEN /\ resp' = Response("batchUpdateOrder", user, 400)
            /\ UNCHANGED <<seq, tables, pending>>
     ELSE IF fail = "update"
       THEN /\ resp' = Response("batchUpdateOrder", user, 500)
            /\ UNCHANGED <<seq, tables, pending>>
     ELSE /\ categories' = ApplyOrders(categories, orders, Len(orders))
          /\ resp' = IF fail = "reload"
                       THEN Response("batchUpdateOrder", user, 500)
                       ELSE [Response("batchUpdateOrder", user, 200) EXCEPT
                               !.count = Len(orders), !.items = found]
          /\ UNCHANGED <<pending, seq, articles, tags, article_tags, moments, projects,
                         media, files, comments, messages>>

\* target_id is what the validator let through: a number or a numeric string
batchMergeCategories(user, source_ids, target_id) ==
  LET sources == Range(source_ids)
      found == FoundIds(categories, source_ids)
      articleCount == ArticleCount(articles, sources)
      moved == [a \in DOMAIN articles |->
                  IF articles[a].category_id \in sources
                    THEN [articles[a] EXCEPT !.category_id = target_id.n]
                    ELSE articles[a]]
      after == ArticlesAfterCategoryDelete(moved, found)
  IN IF Includes(source_ids, target_id)
       THEN /\ resp' = Response("batchMergeCategories", user, 400)
            /\ UNCHANGED <<seq, tables, pending>>
     ELSE IF target_id.n \notin DOMAIN categories
       THEN /\ resp' = Response("batchMergeCategories", user, 404)
            /\ UNCHANGED <<seq, tables, pending>>
     ELSE IF found = {}
       THEN /\ resp' = Response("batchMergeCategories", user, 400)
            /\ UNCHANGED <<seq, tables, pending>>
     ELSE /\ articles' = after
          /\ categories' = Remove(categories, found)
          /\ resp' = [Response("batchMergeCategories", user, 200) EXCEPT
                        !.count = Cardinality(found),
                        !.extra = articleCount,
                        !.tcount = ArticleCount(after, {target_id.n})]
          /\ UNCHANGED <<pending, seq, tags, article_tags, moments, projects, media, files,
                         comments, messages>>

(***************************************************************************)
(* tagController (routes: authenticate, authorize('admin'))                *)
(***************************************************************************)
createTag(user, color) ==
  /\ seq.tag < MaxRows
  /\ seq' = [seq EXCEPT !.tag = seq.tag + 1]
  /\ tags' = Insert(tags, seq.tag + 1, [color |-> color])
  /\ resp' = Response("createTag", user, 201)
  /\ UNCHANGED <<pending, articles, categories, article_tags, moments, projects, media, files,
                 comments, messages>>

deleteTag(user, id) ==
  IF id \notin DOMAIN tags
    THEN /\ resp' = Response("deleteTag", user, 404)
         /\ UNCHANGED <<seq, tables, pending>>
  ELSE /\ tags' = Remove(tags, {id})
       /\ article_tags' = JoinAfterTagDelete(article_tags, {id})
       /\ resp' = Response("deleteTag", user, 200)
       /\ UNCHANGED <<pending, seq, articles, categories, moments, projects, media, files,
                      comments, messages>>

batchDeleteTags(user, ids) ==
  LET found == FoundIds(tags, ids)
  IN IF found = {}
       THEN /\ resp' = Response("batchDeleteTags", user, 400)
            /\ UNCHANGED <<seq, tables, pending>>
     ELSE /\ tags' = Remove(tags, found)
          /\ article_tags' = JoinAfterTagDelete(article_tags, found)
          /\ resp' = [Response("batchDeleteTags", user, 200) EXCEPT
                        !.count = Cardinality(found),
                        !.total = Len(ids)]
          /\ UNCHANGED <<pending, seq, articles, categories, moments, projects, media, files,
                         comments, messages>>

\* SELECT COUNT(DISTINCT article_id) FROM article_tags WHERE tag_id IN (S)
TaggedArticles(rows, S) == {r[1] : r \in {x \in rows : x[2] \in S}}

\* INSERT IGNORE INTO article_tags SELECT article_id, :targetId ... WHERE tag_id IN
\* (:sourceIds): the primary key (article_id, tag_id) drops the duplicates
InsertIgnoreTarget(rows, sources, target) ==
  rows \cup {<<a, target>> : a \in TaggedArticles(rows, sources)}

batchMergeTags(user, source_ids, target_id) ==
  LET sources == Range(source_ids)
      found == FoundIds(tags, source_ids)
      inserted == InsertIgnoreTarget(article_tags, sources, target_id.n)
      deleted == {r \in inserted : r[2] \notin sources}
      after == JoinAfterTagDelete(deleted, found)
  IN IF Includes(source_ids, target_id)
       THEN /\ resp' = Response("batchMergeTags", user, 400)
            /\ UNCHANGED <<seq, tables, pending>>
     ELSE IF target_id.n \notin DOMAIN tags
       THEN /\ resp' = Response("batchMergeTags", user, 404)
            /\ UNCHANGED <<seq, tables, pending>>
     ELSE IF found = {}
       THEN /\ resp' = Response("batchMergeTags", user, 400)
            /\ UNCHANGED <<seq, tables, pending>>
     ELSE /\ article_tags' = after
          /\ tags' = Remove(tags, found)
          /\ resp' = [Response("batchMergeTags", user, 200) EXCEPT
                        !.count = Cardinality(found),
                        !.extra = Cardinality(TaggedArticles(article_tags, sources)),
                        !.tcount = Cardinality(TaggedArticles(after, {target_id.n}))]
          /\ UNCHANGED <<pending, seq, articles, categories, moments, projects, media, files,
                         comments, messages>>

\* ids is never empty and color is a colour.  fail: as in batchUpdateOrder,
\* the UPDATE of the transaction ("update"), the findAll that follows the
\* commit ("reload"), or none ("none")
batchUpdateTagColor(user, ids, color, fail) ==
  LET found == FoundIds(tags, ids)
  IN IF Cardinality(found) # Len(ids)
       THEN /\ resp' = Response("batchUpdateTagColor", user, 400)
            /\ UNCHANGED <<seq, tables, pending>>
     ELSE IF fail = "update"
       THEN /\ resp' = Response("batchUpdateTagColor", user, 500)
            /\ UNCHANGED <<seq, tables, pending>>
     ELSE /\ tags' = [t \in DOMAIN tags |->
                        IF t \in found THEN [tags[t] EXCEPT !.color = color] ELSE tags[t]]
          /\ resp' = IF fail = "reload"
                       THEN Response("batchUpdateTagColor", user, 500)
                       ELSE [Response("batchUpdateTagColor", user, 200) EXCEPT
                               !.count = Cardinality(found), !.items = found]
          /\ UNCHANGED <<pending, seq, articles, categories, article_tags, moments,
                         projects, media, files, comments, messages>>

(***************************************************************************)
(* momentController                                                        *)
(***************************************************************************)
\* the rows of the list all fit the first page (default limit 10 > MaxRows)
getMoments(user, user_id, visibility) ==
  LET byUser == {m \in DOMAIN moments : Present(user_id) => moments[m].user_id = Val(user_id)}
      rows == IF Present(visibility)
                THEN {m \in byUser : moments[m].visibility = Val(visibility)}
              ELSE IF user.role # "admin"
                THEN {m \in byUser : moments[m].visibility = "public"}
              ELSE byUser
  IN /\ resp' = [Response("getMoments", user, 200) EXCEPT
                   !.items = rows, !.total = Cardinality(rows)]
     /\ UNCHANGED <<seq, tables, pending>>

getMomentById(user, id) ==
  /\ resp' = IF id \notin DOMAIN moments
               THEN Response("getMomentById", user, 404)
             ELSE IF moments[id].visibility = "private"
                     /\ (user.role = "none" \/ ~canAct(user, moments[id].user_id))
               THEN Response("getMomentById", user, 403)
             ELSE [Response("getMomentById", user, 200) EXCEPT !.items = {id}]
  /\ UNCHANGED <<seq, tables, pending>>

\* content is the text after trim(); "" is a blank text
createMoment(user, content, visibility) ==
  /\ seq.moment < MaxRows
  /\ IF content = ""
       THEN /\ resp' = Response("createMoment", user, 400)
            /\ UNCHANGED <<seq, tables, pending>>
       ELSE /\ seq' = [seq EXCEPT !.moment = seq.moment + 1]
            /\ moments' = Insert(moments, seq.moment + 1,
                                 [user_id |-> user.id, content |-> content,
                                  visibility |-> IF Present(visibility) THEN Val(visibility)
                                                                         ELSE "public",
                                  images |-> 0,
                                  is_pinned |-> FALSE])
            /\ resp' = Response("createMoment", user, 201)
            /\ UNCHANGED <<pending, articles, categories, tags, article_tags, projects, media,
                           files, comments, messages>>

\* images: the length of the images array
updateMoment(user, id, content, images, visibility) ==
  IF id \notin DOMAIN moments
    THEN /\ resp' = Response("updateMoment", user, 404)
         /\ UNCHANGED <<seq, tables, pending>>
  ELSE IF ~canAct(user, moments[id].user_id)
    THEN /\ resp' = Response("updateMoment", user, 403)
         /\ UNCHANGED <<seq, tables, pending>>
  ELSE IF content = {""}
    THEN /\ resp' = Response("updateMoment", user, 400)
         /\ UNCHANGED <<seq, tables, pending>>
  ELSE IF Present(images) /\ Val(images) > 9
    THEN /\ resp' = Response("updateMoment", user, 400)
         /\ UNCHANGED <<seq, tables, pending>>
  ELSE LET m1 == IF Present(content) THEN [moments[id] EXCEPT !.content = Val(content)]
                                     ELSE moments[id]
           m2 == IF Present(images) THEN [m1 EXCEPT !.images = Val(images)] ELSE m1
           m3 == IF Present(visibility) THEN [m2 EXCEPT !.visibility = Val(visibility)]
                                        ELSE m2
       IN /\ moments' = [moments EXCEPT ![id] = m3]
          /\ resp' = [Response("updateMoment", user, 200) EXCEPT !.items = {id}]
          /\ UNCHANGED <<pending, seq, articles, categories, tags, article_tags, projects, media,
                         files, comments, messages>>

deleteMoment(user, id) ==
  IF id \notin DOMAIN moments
    THEN /\ resp' = Response("deleteMoment", user, 404)
         /\ UNCHANGED <<seq, tables, pending>>
  ELSE IF ~canAct(user, moments[id].user_id)
    THEN /\ resp' = Response("deleteMoment", user, 403)
         /\ UNCHANGED <<seq, tables, pending>>
  ELSE /\ moments' = Remove(moments, {id})
       /\ resp' = Response("deleteMoment", user, 200)
       /\ UNCHANGED <<pending, seq, articles, categories, tags, article_tags, projects, media,
                      files, comments, messages>>

batchDeleteMoments(user, ids) ==
  LET found == FoundIds(moments, ids)
      validIds == {m \in found : canAct(user, moments[m].user_id)}
  IN /\ moments' = Remove(moments, validIds)
     /\ resp' = [Response("batchDeleteMoments", user, 200) EXCEPT
                   !.tx = "commit",
                   !.count = Cardinality(validIds),
                   !.total = Len(ids),
                   !.errors = {Err(m, "no permission") : m \in found \ validIds}]
     /\ UNCHANGED <<pending, seq, articles, categories, tags, article_tags, projects, media,
                    files, comments, messages>>

togglePin(user, id, is_pinned) ==
  IF id \notin DOMAIN moments
    THEN /\ resp' = Response("togglePin", user, 404)
         /\ UNCHANGED <<seq, tables, pending>>
  ELSE IF ~canAct(user, moments[id].user_id)
    THEN /\ resp' = Response("togglePin", user, 403)
         /\ UNCHANGED <<seq, tables, pending>>
  ELSE /\ moments' = [moments EXCEPT ![id].is_pinned = is_pinned]
       /\ resp' = [Response("togglePin", user, 200) EXCEPT !.items = {id}]
       /\ UNCHANGED <<pending, seq, articles, categories, tags, article_tags, projects, media,
                      files, comments, messages>>

(***************************************************************************)
(* projectController                                                       *)
(***************************************************************************)
createProject(user, status, is_featured) ==
  /\ seq.project < MaxRows
  /\ seq' = [seq EXCEPT !.project = seq.project + 1]
  /\ projects' = Insert(projects, seq.project + 1,
                        [author_id |-> user.id,
                         status |-> IF Present(status) THEN Val(status) ELSE "draft",
                         is_featured |-> IF Present(is_featured) THEN Val(is_featured)
                                                                 ELSE FALSE,
                         view_count |-> 0])
  /\ resp' = Response("createProject", user, 201)
  /\ UNCHANGED <<pending, articles, categories, tags, article_tags, moments, media, files,
                 comments, messages>>

\* project.update({...req.body}) after author_id and view_count are dropped
updateProject(user, id, status, is_featured) ==
  IF id \notin DOMAIN projects
    THEN /\ resp' = Response("updateProject", user, 404)
         /\ UNCHANGED <<seq, tables, pending>>
  ELSE IF ~canAct(user, projects[id].author_id)
    THEN /\ resp' = Response("updateProject", user, 403)
         /\ UNCHANGED <<seq, tables, pending>>
  ELSE LET p1 == IF Present(status) THEN [projects[id] EXCEPT !.status = Val(status)]
                                    ELSE projects[id]
           p2 == IF Present(is_featured) THEN [p1 EXCEPT !.is_featured = Val(is_featured)]
                                         ELSE p1
       IN /\ projects' = [projects EXCEPT ![id] = p2]
          /\ resp' = [Response("updateProject", user, 200) EXCEPT !.items = {id}]
          /\ UNCHANGED <<pending, seq, articles, categories, tags, article_tags, moments, media,
                         files, comments, messages>>

deleteProject(user, id) ==
  IF id \notin DOMAIN projects
    THEN /\ resp' = Response("deleteProject", user, 404)
         /\ UNCHANGED <<seq, tables, pending>>
  ELSE IF ~canAct(user, projects[id].author_id)
    THEN /\ resp' = Response("deleteProject", user, 403)
         /\ UNCHANGED <<seq, tables, pending>>
  ELSE /\ projects' = Remove(projects, {id})
       /\ resp' = Response("deleteProject", user, 200)
       /\ UNCHANGED <<pending, seq, articles, categories, tags, article_tags, moments, media,
                      files, comments, messages>>

\* errors is one summary string, present when fewer projects pass than ids were sent
ProjectErrors(ids, canDelete) ==
  IF Len(ids) > Cardinality(canDelete) THEN {Err(NULL, "some skipped")} ELSE {}

batchDeleteProjects(user, ids) ==
  LET found == FoundIds(projects, ids)
      canDelete == {p \in found : canAct(user, projects[p].author_id)}
  IN IF canDelete = {}
       THEN /\ resp' = [Response("batchDeleteProjects", user, 403) EXCEPT !.tx = "rollback"]
            /\ UNCHANGED <<seq, tables, pending>>
       ELSE /\ projects' = Remove(projects, canDelete)
            /\ resp' = [Response("batchDeleteProjects", user, 200) EXCEPT
                          !.tx = "commit",
                          !.count = Cardinality(canDelete),
                          !.total = Len(ids),
                          !.errors = ProjectErrors(ids, canDelete)]
            /\ UNCHANGED <<pending, seq, articles, categories, tags, article_tags, moments, media,
                           files, comments, messages>>

\* return ApiResponse.badRequest(res, '无效的状态值'): the transaction stays open
StatusRefused(user) ==
  [Response("projectBatchUpdateStatus", user, 400) EXCEPT !.tx = "open"]

\* status is what projectBatchUpdateStatusValidation lets through: one of the
\* four status names, or an array of them, which isIn checks item by item
\* ("[draft]" stands for the array ["draft"]) and includes() does not find
projectBatchUpdateStatus(user, ids, status) ==
  LET found == FoundIds(projects, ids)
      canUpdate == {p \in found : canAct(user, projects[p].author_id)}
      set(p) == [p EXCEPT !.status = status]
  IN IF status \notin {"completed", "in_progress", "archived", "draft"}
       THEN /\ resp' = StatusRefused(user)
            /\ UNCHANGED <<seq, tables, pending>>
     ELSE IF canUpdate = {}
       THEN /\ resp' = [Response("projectBatchUpdateStatus", user, 403) EXCEPT
                          !.tx = "rollback"]
            /\ UNCHANGED <<seq, tables, pending>>
       ELSE /\ projects' = [i \in DOMAIN projects |->
                               IF i \in canUpdate THEN set(projects[i]) ELSE projects[i]]
            /\ resp' = [Response("projectBatchUpdateStatus", user, 200) EXCEPT
                          !.tx = "commit",
                          !.count = Cardinality(canUpdate),
                          !.total = Len(ids)]
            /\ UNCHANGED <<pending, seq, articles, categories, tags, article_tags, moments, media,
                           files, comments, messages>>

\* query('page').optional().isInt({min: 1}), query('limit').optional().isInt({min: 1, max: 50})
projectQueryValidation(query) ==
  /\ Present(query.page) => (~Val(query.page).text /\ Val(query.page).n >= 1)
  /\ Present(query.limit) => (~Val(query.limit).text /\ Val(query.limit).n >= 1
                              /\ Val(query.limit).n <= 50)

\* GET /projects without type, featured, tech and keyword.  The handler calls
\* getPagination(page, limit): the value of page stands where the query object
\* is expected and has neither a page nor a limit property, so the first ten
\* rows are read whatever was sent, and the page reported is the one sent.
\* Fewer than ten projects are stored: the page read holds every row.
getProjects(user, status, query) ==
  LET p == getPagination(NoQuery)
      page == IF Present(query.page) THEN Val(query.page).n ELSE 1
      rows == {i \in DOMAIN projects :
                 IF user.role # "admin" THEN projects[i].status = "completed"
                 ELSE (Present(status) /\ Val(status) # "all")
                         => projects[i].status = Val(status)}
  IN /\ resp' = successWithPagination("getProjects", user, rows,
                  [page |-> page, limit |-> p.limit, total |-> Cardinality(rows)])
     /\ UNCHANGED <<seq, tables, pending>>

\* ids is never empty; is_featured is a boolean, as the validation requires
batchUpdateFeatured(user, ids, is_featured) ==
  IF user.role # "admin"
    THEN /\ resp' = Response("batchUpdateFeatured", user, 403)
         /\ UNCHANGED <<seq, tables, pending>>
  ELSE /\ projects' = [i \in DOMAIN projects |->
                         IF i \in Range(ids)
                           THEN [projects[i] EXCEPT !.is_featured = (is_featured = TRUE)]
                           ELSE projects[i]]
       /\ resp' = [Response("batchUpdateFeatured", user, 200) EXCEPT
                     !.count = Cardinality(FoundIds(projects, ids))]
       /\ UNCHANGED <<pending, seq, articles, categories, tags, article_tags, moments, media,
                      files, comments, messages>>

(***************************************************************************)
(* mediaController                                                         *)
(***************************************************************************)
uploadMedia(user, filename) ==
  /\ seq.media < MaxRows
  /\ seq' = [seq EXCEPT !.media = seq.media + 1]
  /\ media' = Insert(media, seq.media + 1,
                     [uploader_id |-> user.id, filename |-> filename, usage_count |-> 0])
  /\ files' = files \cup {seq.media + 1}
  /\ resp' = Response("uploadMedia", user, 201)
  /\ UNCHANGED <<pending, articles, categories, tags, article_tags, moments, projects,
                 comments, messages>>

updateMedia(user, id, filename) ==
  IF id \notin DOMAIN media
    THEN /\ resp' = Response("updateMedia", user, 404)
         /\ UNCHANGED <<seq, tables, pending>>
  ELSE IF ~canAct(user, media[id].uploader_id)
    THEN /\ resp' = Response("updateMedia", user, 403)
         /\ UNCHANGED <<seq, tables, pending>>
  ELSE /\ media' = IF Present(filename) THEN [media EXCEPT ![id].filename = Val(filename)]
                                        ELSE media
       /\ resp' = [Response("updateMedia", user, 200) EXCEPT !.items = {id}]
       /\ UNCHANGED <<pending, seq, articles, categories, tags, article_tags, moments, projects,
                      files, comments, messages>>

\* a reference to the media record is recorded: usage_count goes up by one.
\* No handler at hand writes the column; it is kept by the code that
\* attaches media to content.
MaxUsage == 2
mediaReferenced(id) ==
  /\ id \in DOMAIN media
  /\ media[id].usage_count < MaxUsage
  /\ media' = [media EXCEPT ![id].usage_count = @ + 1]
  /\ UNCHANGED <<pending, seq, articles, categories, tags, article_tags, moments, projects,
                 files, comments, messages, resp>>

deleteMedia(user, id) ==
  IF id \notin DOMAIN media
    THEN /\ resp' = Response("deleteMedia", user, 404)
         /\ UNCHANGED <<seq, tables, pending>>
  ELSE IF ~canAct(user, media[id].uploader_id)
    THEN /\ resp' = Response("deleteMedia", user, 403)
         /\ UNCHANGED <<seq, tables, pending>>
  ELSE IF media[id].usage_count > 0
    THEN /\ resp' = Response("deleteMedia", user, 400)
         /\ UNCHANGED <<seq, tables, pending>>
  ELSE /\ files' = files \ {id}
       /\ media' = Remove(media, {id})
       /\ resp' = Response("deleteMedia", user, 200)
       /\ UNCHANGED <<pending, seq, articles, categories, tags, article_tags, moments, projects,
                      comments, messages>>

\* deletableIds that holds every file the caller may delete, used or not
MediaDeletableUsed(user, found) ==
  {m \in found : canAct(user, media[m].uploader_id)}

MediaDeletable(user, found) ==
  {m \in found : canAct(user, media[m].uploader_id) /\ media[m].usage_count = 0}
MediaErrors(user, found) ==
  {Err(m, "no permission") : m \in {x \in found : ~canAct(user, media[x].uploader_id)}}
  \cup {Err(m, "in use") : m \in {x \in found : canAct(user, media[x].uploader_id)
                                                  /\ media[x].usage_count > 0}}

\* The rows are deleted one by one, file first, outside any transaction.
\* fail: the id of the row whose DELETE raises a database error (NULL: none)
batchDeleteMedia(user, ids, fail) ==
  LET found == FoundIds(media, ids)
      deletableIds == MediaDeletable(user, found)
      failed == fail \in deletableIds
      unlinked == IF failed THEN {m \in deletableIds : m <= fail} ELSE deletableIds
      destroyed == IF failed THEN {m \in deletableIds : m < fail} ELSE deletableIds
  IN IF found = {}
       THEN /\ resp' = Response("batchDeleteMedia", user, 400)
            /\ UNCHANGED <<seq, tables, pending>>
       ELSE /\ files' = files \ unlinked
            /\ media' = Remove(media, destroyed)
            /\ resp' = IF failed
                         THEN Response("batchDeleteMedia", user, 500)
                         ELSE [Response("batchDeleteMedia", user, 200) EXCEPT
                                 !.count = Cardinality(deletableIds),
                                 !.total = Len(ids),
                                 !.errors = MediaErrors(user, found)]
            /\ UNCHANGED <<pending, seq, articles, categories, tags, article_tags, moments,
                           projects, comments, messages>>

(***************************************************************************)
(* commentController                                                       *)
(***************************************************************************)
\* comments.parent_id -> comments.id, ON DELETE SET NULL
CommentsAfterDelete(cs, S) ==
  LET rest == Remove(cs, S)
  IN [c \in DOMAIN rest |-> IF rest[c].parent_id \in S
                              THEN [rest[c] EXCEPT !.parent_id = NULL] ELSE rest[c]]

\* GET /articles/:articleId/comments without page and limit: the first page of
\* ten holds every row.  items: the comments of the answer; nested: the
\* comments included as `replies` of one of them.
getCommentsByArticle(user, articleId) ==
  LET rows == {c \in DOMAIN comments :
                 /\ comments[c].article_id = articleId
                 /\ (user.role # "admin" => comments[c].is_approved)}
  IN /\ resp' = IF articleId \notin DOMAIN articles
                  THEN Response("getCommentsByArticle", user, 404)
                  ELSE [Response("getCommentsByArticle", user, 200) EXCEPT
                          !.items = rows,
                          !.total = Cardinality(rows),
                          !.nested = {c \in DOMAIN comments :
                                        comments[c].parent_id \in rows}]
     /\ UNCHANGED <<seq, tables, pending>>

\* user is NoUser for a request without credential
createComment(user, articleId, parent_id, content) ==
  /\ seq.comment < MaxThread
  /\ IF articleId \notin DOMAIN articles
       THEN /\ resp' = Response("createComment", user, 404)
            /\ UNCHANGED <<seq, tables, pending>>
     ELSE IF Present(parent_id)
             /\ (Val(parent_id) \notin DOMAIN comments
                 \/ comments[Val(parent_id)].article_id # articleId)
       THEN /\ resp' = Response("createComment", user, 400)
            /\ UNCHANGED <<seq, tables, pending>>
     ELSE /\ seq' = [seq EXCEPT !.comment = seq.comment + 1]
          /\ comments' = Insert(comments, seq.comment + 1,
                                [article_id |-> articleId,
                                 user_id |-> user.id,
                                 parent_id |-> IF Present(parent_id) THEN Val(parent_id)
                                                                     ELSE NULL,
                                 content |-> content,
                                 is_approved |-> user.role # "none"])
          /\ resp' = Response("createComment", user, 201)
          /\ UNCHANGED <<pending, articles, categories, tags, article_tags, moments, projects,
                         media, files, messages>>

updateComment(user, id, content) ==
  IF id \notin DOMAIN comments
    THEN /\ resp' = Response("updateComment", user, 404)
         /\ UNCHANGED <<seq, tables, pending>>
  ELSE IF ~canAct(user, comments[id].user_id)
    THEN /\ resp' = Response("updateComment", user, 403)
         /\ UNCHANGED <<seq, tables, pending>>
  ELSE /\ comments' = IF Present(content) /\ Val(content) # ""
                        THEN [comments EXCEPT ![id].content = Val(content)]
                        ELSE comments
       /\ resp' = [Response("updateComment", user, 200) EXCEPT !.items = {id}]
       /\ UNCHANGED <<pending, seq, articles, categories, tags, article_tags, moments, projects,
                      media, files, messages>>

deleteComment(user, id) ==
  IF id \notin DOMAIN comments
    THEN /\ resp' = Response("deleteComment", user, 404)
         /\ UNCHANGED <<seq, tables, pending>>
  ELSE IF ~canAct(user, comments[id].user_id)
    THEN /\ resp' = Response("deleteComment", user, 403)
         /\ UNCHANGED <<seq, tables, pending>>
  ELSE /\ comments' = CommentsAfterDelete(comments, {id})
       /\ resp' = Response("deleteComment", user, 200)
       /\ UNCHANGED <<pending, seq, articles, categories, tags, article_tags, moments, projects,
                      media, files, messages>>

\* One pass of the per-item loop: the table, the success count and the failures
\* after the ids 1..n of the list.  failAt: the position whose DELETE raises a
\* database error, caught by the inner try/catch (0: none).
RECURSIVE CommentLoop(_, _, _)
CommentLoop(commentIds, n, failAt) ==
  IF n = 0 THEN [rows |-> comments, ok |-> 0, failures |-> <<>>]
  ELSE LET prev == CommentLoop(commentIds, n - 1, failAt)
           id == commentIds[n]
       IN IF id \notin DOMAIN prev.rows
            THEN [prev EXCEPT !.failures = Append(@, Err(id, "not found"))]
          ELSE IF n = failAt
            THEN [prev EXCEPT !.failures = Append(@, Err(id, "error"))]
          ELSE [prev EXCEPT !.rows = CommentsAfterDelete(@, {id}), !.ok = @ + 1]

batchDeleteComments(user, commentIds, failAt) ==
  LET done == CommentLoop(commentIds, Len(commentIds), failAt)
  IN /\ comments' = done.rows
     /\ resp' = [Response("batchDeleteComments", user, 200) EXCEPT
                   !.count = done.ok,
                   !.total = Len(commentIds),
                   !.failures = done.failures]
     /\ UNCHANGED <<pending, seq, articles, categories, tags, article_tags, moments, projects,
                    media, files, messages>>

(***************************************************************************)
(* messageController                                                       *)
(***************************************************************************)
\* Message.destroy({ where: { [Op.or]: [{ id }, { reply_to_id: id }] } }): the
\* message and the replies to it.  A reply to one of the removed replies stays,
\* its reply_to_id set to null by the foreign key of the `replies` association
\* (declared with the models, outside the files at hand; a nullable key of a
\* hasMany gets ON DELETE SET NULL, as parent_id of comments does).
MessagesAfterDelete(ms, id) ==
  LET gone == {id} \cup {m \in DOMAIN ms : ms[m].reply_to_id = id}
      rest == Remove(ms, gone)
  IN [m \in DOMAIN rest |-> IF rest[m].reply_to_id \in gone
                              THEN [rest[m] EXCEPT !.reply_to_id = NULL] ELSE rest[m]]

\* createMessage that stores every message as approved
createMessageApproved(user, reply_to_id, content, mood) ==
  /\ seq.message < MaxThread
  /\ IF Present(reply_to_id) /\ Val(reply_to_id) \notin DOMAIN messages
       THEN /\ resp' = Response("createMessage", user, 400)
            /\ UNCHANGED <<seq, tables, pending>>
       ELSE /\ seq' = [seq EXCEPT !.message = seq.message + 1]
            /\ messages' = Insert(messages, seq.message + 1,
                                  [user_id |-> user.id,
                                   reply_to_id |-> IF Present(reply_to_id)
                                                     THEN Val(reply_to_id) ELSE NULL,
                                   content |-> content,
                                   mood |-> IF Present(mood) THEN Val(mood) ELSE "happy",
                                   status |-> "approved",
                                   likes |-> 0])
            /\ resp' = Response("createMessage", user, 201)
            /\ UNCHANGED <<pending, articles, categories, tags, article_tags, moments, projects,
                           media, files, comments>>

\* every request carries a nickname, so the check of lines 124-126 passes
createMessage(user, reply_to_id, content, mood) ==
  /\ seq.message < MaxThread
  /\ IF Present(reply_to_id) /\ Val(reply_to_id) \notin DOMAIN messages
       THEN /\ resp' = Response("createMessage", user, 400)
            /\ UNCHANGED <<seq, tables, pending>>
       ELSE /\ seq' = [seq EXCEPT !.message = seq.message + 1]
            /\ messages' = Insert(messages, seq.message + 1,
                                  [user_id |-> user.id,
                                   reply_to_id |-> IF Present(reply_to_id)
                                                     THEN Val(reply_to_id) ELSE NULL,
                                   content |-> content,
                                   mood |-> IF Present(mood) THEN Val(mood) ELSE "happy",
                                   status |-> IF user.role # "none" THEN "approved"
                                                                    ELSE "pending",
                                   likes |-> 0])
            /\ resp' = Response("createMessage", user, 201)
            /\ UNCHANGED <<pending, articles, categories, tags, article_tags, moments, projects,
                           media, files, comments>>

updateMessage(user, id, content, mood) ==
  IF id \notin DOMAIN messages
    THEN /\ resp' = Response("updateMessage", user, 404)
         /\ UNCHANGED <<seq, tables, pending>>
  ELSE IF ~canAct(user, messages[id].user_id)
    THEN /\ resp' = Response("updateMessage", user, 403)
         /\ UNCHANGED <<seq, tables, pending>>
  ELSE LET m1 == IF Present(content) /\ Val(content) # ""
                   THEN [messages[id] EXCEPT !.content = Val(content)] ELSE messages[id]
           m2 == IF Present(mood) THEN [m1 EXCEPT !.mood = Val(mood)] ELSE m1
       IN /\ messages' = [messages EXCEPT ![id] = m2]
          /\ resp' = [Response("updateMessage", user, 200) EXCEPT !.items = {id}]
          /\ UNCHANGED <<pending, seq, articles, categories, tags, article_tags, moments, projects,
                         media, files, comments>>

deleteMessage(user, id) ==
  IF id \notin DOMAIN messages
    THEN /\ resp' = Response("deleteMessage", user, 404)
         /\ UNCHANGED <<seq, tables, pending>>
  ELSE IF ~canAct(user, messages[id].user_id)
    THEN /\ resp' = Response("deleteMessage", user, 403)
         /\ UNCHANGED <<seq, tables, pending>>
  ELSE /\ messages' = MessagesAfterDelete(messages, id)
       /\ resp' = Response("deleteMessage", user, 200)
       /\ UNCHANGED <<pending, seq, articles, categories, tags, article_tags, moments, projects,
                      media, files, comments>>

RECURSIVE MessageLoop(_, _, _)
MessageLoop(messageIds, n, failAt) ==
  IF n = 0 THEN [rows |-> messages, ok |-> 0, failures |-> <<>>]
  ELSE LET prev == MessageLoop(messageIds, n - 1, failAt)
           id == messageIds[n]
       IN IF id \notin DOMAIN prev.rows
            THEN [prev EXCEPT !.failures = Append(@, Err(id, "not found"))]
          ELSE IF n = failAt
            THEN [prev EXCEPT !.failures = Append(@, Err(id, "error"))]
          ELSE [prev EXCEPT !.rows = MessagesAfterDelete(@, id), !.ok = @ + 1]

batchDeleteMessages(user, messageIds, failAt) ==
  LET done == MessageLoop(messageIds, Len(messageIds), failAt)
  IN /\ messages' = done.rows
     /\ resp' = [Response("batchDeleteMessages", user, 200) EXCEPT
                   !.count = done.ok,
                   !.total = Len(messageIds),
                   !.failures = done.failures]
     /\ UNCHANGED <<pending, seq, articles, categories, tags, article_tags, moments, projects,
                    media, files, comments>>

(***************************************************************************)
(* Requests that overlap: a handler reads its row in one step and writes   *)
(* in a later one, other requests running in between                       *)
(***************************************************************************)
\* requests that may be between their read and their write at one time
MaxPending == 2

\* a row or a request body is a function from attribute names to values
Attrs(S, f) == [a \in S |-> f[a]]
\* the attributes that set() marks as changed on an instance read as `old`:
\* save() and update() write these attributes and no other
Changed(old, new) == Attrs({a \in DOMAIN new : a \in DOMAIN old /\ new[a] # old[a]}, new)
\* UPDATE t SET fields WHERE id = id: no row, no effect
Write(t, id, fields) ==
  IF id \notin DOMAIN t THEN t
  ELSE [t EXCEPT ![id] = [a \in DOMAIN t[id] |->
                            IF a \in DOMAIN fields THEN fields[a] ELSE t[id][a]]]
\* UPDATE t SET counter = counter + 1 WHERE id = id
Increment(t, id, counter) ==
  IF id \notin DOMAIN t THEN t ELSE [t EXCEPT ![id][counter] = @ + 1]

\* updateData that keeps every attribute of the body
updateDataWhole(body) == body
\* updateData that drops view_count and keeps author_id
updateDataAuthorKept(body) == Attrs(DOMAIN body \ {"view_count"}, body)

\* const updateData = { ...req.body }; delete author_id; delete view_count
updateData(body) == Attrs(DOMAIN body \ {"author_id", "view_count"}, body)

\* PUT /projects/:id up to project.update(updateData): the answer when the
\* project is missing or not the caller's, else the instance read (row) and
\* the attributes left to write (fields)
updateProjectFind(user, id, body) ==
  IF id \notin DOMAIN projects
    THEN /\ resp' = Response("updateProject", user, 404)
         /\ UNCHANGED <<seq, tables, pending>>
  ELSE IF ~canAct(user, projects[id].author_id)
    THEN /\ resp' = Response("updateProject", user, 403)
         /\ UNCHANGED <<seq, tables, pending>>
  ELSE /\ Len(pending) < MaxPending
       /\ pending' = Append(pending,
                        [op |-> "updateProject", user |-> user, id |-> id, row |-> projects[id],
                         fields |-> Changed(projects[id], updateData(body))])
       /\ UNCHANGED <<seq, tables, resp>>

\* PUT /articles/:id with a body of status, is_top and views (the handler
\* reads title, summary, content, cover_image, category_id, tag_ids, status
\* and is_top from the body and nothing else), up to article.save()
updateArticleFind(user, id, body, now) ==
  IF id \notin DOMAIN articles
    THEN /\ resp' = Response("updateArticle", user, 404)
         /\ UNCHANGED <<seq, tables, pending>>
  ELSE IF ~canAct(user, articles[id].author_id)
    THEN /\ resp' = Response("updateArticle", user, 403)
         /\ UNCHANGED <<seq, tables, pending>>
  ELSE LET old == articles[id]
           set == [a \in DOMAIN body \cap {"status", "is_top"} |-> body[a]]
           stamp == IF "status" \in DOMAIN body /\ old.status = "draft"
                       /\ body.status = "published" /\ old.published_at = NULL
                      THEN [published_at |-> now] ELSE set
           new == [a \in DOMAIN set \cup DOMAIN stamp |->
                     IF a \in DOMAIN set THEN set[a] ELSE stamp[a]]
       IN /\ Len(pending) < MaxPending
          /\ pending' = Append(pending,
                           [op |-> "updateArticle", user |-> user, id |-> id, row |-> old,
                            fields |-> Changed(old, new)])
          /\ UNCHANGED <<seq, tables, resp>>

\* GET /articles/:id up to article.increment('views')
getArticleByIdFind(user, id) ==
  IF id \notin DOMAIN articles
    THEN /\ resp' = Response("getArticleById", user, 404)
         /\ UNCHANGED <<seq, tables, pending>>
  ELSE IF articles[id].status = "draft" /\ user.id # articles[id].author_id
          /\ user.role # "admin"
    THEN /\ resp' = Response("getArticleById", user, 403)
         /\ UNCHANGED <<seq, tables, pending>>
  ELSE /\ Len(pending) < MaxPending
       /\ pending' = Append(pending,
                        [op |-> "getArticleById", user |-> user, id |-> id, row |-> articles[id],
                         fields |-> [views |-> 1]])
       /\ UNCHANGED <<seq, tables, resp>>

\* POST /projects/:id/view up to project.increment('view_count', { by: 1 })
incrementViewFind(id) ==
  IF id \notin DOMAIN projects
    THEN /\ resp' = Response("incrementView", NoUser, 404)
         /\ UNCHANGED <<seq, tables, pending>>
  ELSE /\ Len(pending) < MaxPending
       /\ pending' = Append(pending,
                        [op |-> "incrementView", user |-> NoUser, id |-> id, row |-> projects[id],
                         fields |-> [view_count |-> 1]])
       /\ UNCHANGED <<seq, tables, resp>>

\* the sequence without its i-th element
Without(q, i) == SubSeq(q, 1, i - 1) \o SubSeq(q, i + 1, Len(q))

\* the write of the i-th pending request, and its answer
Finish(i) ==
  LET r == pending[i] IN
  /\ i \in DOMAIN pending
  /\ pending' = Without(pending, i)
  /\ resp' = [Response(r.op, r.user, 200) EXCEPT !.items = {r.id}]
  /\ CASE r.op = "updateArticle" ->
            /\ articles' = Write(articles, r.id, r.fields)
            /\ UNCHANGED projects
       [] r.op = "updateProject" ->
            /\ projects' = Write(projects, r.id, r.fields)
            /\ UNCHANGED articles
       [] r.op = "getArticleById" ->
            /\ r.id \in DOMAIN articles => articles[r.id].views < MaxViews
            /\ articles' = Increment(articles, r.id, "views")
            /\ UNCHANGED projects
       [] r.op = "incrementView" ->
            /\ r.id \in DOMAIN projects => projects[r.id].view_count < MaxViews
            /\ projects' = Increment(projects, r.id, "view_count")
            /\ UNCHANGED articles
  /\ UNCHANGED <<seq, categories, tags, article_tags, moments, media, files,
                 comments, messages>>

\* DELETE /categories/:id up to category.destroy(): the category is found and
\* Article.count has answered 0
deleteCategoryCheck(user, id) ==
  IF id \notin DOMAIN categories
    THEN /\ resp' = Response("deleteCategory", user, 404)
         /\ UNCHANGED <<seq, tables, pending>>
  ELSE IF CategoryInUse(id)
    THEN /\ resp' = [Response("deleteCategory", user, 400) EXCEPT
                       !.extra = ArticleCount(articles, {id})]
         /\ UNCHANGED <<seq, tables, pending>>
  ELSE /\ Len(pending) < MaxPending
       /\ pending' = Append(pending, [op |-> "deleteCategory", user |-> user,
                                      ids |-> {id}, target |-> NULL,
                                      total |-> 1, errors |-> {}])
       /\ UNCHANGED <<seq, tables, resp>>

\* POST /categories/batch-delete up to the transaction: deletableIds is known
batchDeleteCategoriesCheck(user, ids) ==
  LET found == FoundIds(categories, ids)
      deletableIds == {c \in found : ~CategoryInUse(c)}
  IN IF found = {}
       THEN /\ resp' = Response("batchDeleteCategories", user, 400)
            /\ UNCHANGED <<seq, tables, pending>>
     ELSE IF deletableIds = {}
       THEN /\ resp' = [Response("batchDeleteCategories", user, 400) EXCEPT
                          !.errors = CategoryErrors(found)]
            /\ UNCHANGED <<seq, tables, pending>>
     ELSE /\ Len(pending) < MaxPending
          /\ pending' = Append(pending, [op |-> "batchDeleteCategories", user |-> user,
                                         ids |-> deletableIds, target |-> NULL,
                                         total |-> Len(ids),
                                         errors |-> CategoryErrors(found)])
          /\ UNCHANGED <<seq, tables, resp>>

\* POST /categories/batch-merge up to the transaction: the target and at
\* least one source are found.  target_id is a number.
batchMergeCategoriesFind(user, source_ids, target_id) ==
  IF target_id \in Range(source_ids)
    THEN /\ resp' = Response("batchMergeCategories", user, 400)
         /\ UNCHANGED <<seq, tables, pending>>
  ELSE IF target_id \notin DOMAIN categories
    THEN /\ resp' = Response("batchMergeCategories", user, 404)
         /\ UNCHANGED <<seq, tables, pending>>
  ELSE IF FoundIds(categories, source_ids) = {}
    THEN /\ resp' = Response("batchMergeCategories", user, 400)
         /\ UNCHANGED <<seq, tables, pending>>
  ELSE /\ Len(pending) < MaxPending
       /\ pending' = Append(pending, [op |-> "batchMergeCategories", user |-> user,
                                      ids |-> Range(source_ids), target |-> target_id,
                                      total |-> Len(source_ids), errors |-> {}])
       /\ UNCHANGED <<seq, tables, resp>>

\* The statements left to the i-th pending category request, and its answer:
\* the destroy of a delete, or the transaction of a merge, whose statements
\* run one after the other with no other request in between.  The UPDATE of
\* the merge is refused by the foreign key when it points an article to a
\* target that is no longer stored; the transaction is then rolled back.
FinishCategory(i) ==
  LET r == pending[i]
      stored == r.ids \cap DOMAIN categories
      moved == [a \in DOMAIN articles |->
                  IF articles[a].category_id \in r.ids
                    THEN [articles[a] EXCEPT !.category_id = r.target]
                    ELSE articles[a]]
  IN /\ i \in DOMAIN pending
     /\ pending' = Without(pending, i)
     /\ IF r.op = "batchMergeCategories"
          THEN IF ArticleCount(articles, r.ids) > 0 /\ r.target \notin DOMAIN categories
                 THEN /\ resp' = Response(r.op, r.user, 500)
                      /\ UNCHANGED <<articles, categories>>
                 ELSE /\ articles' = ArticlesAfterCategoryDelete(moved, stored)
                      /\ categories' = Remove(categories, stored)
                      /\ resp' = [Response(r.op, r.user, 200) EXCEPT
                                    !.count = Cardinality(stored),
                                    !.extra = ArticleCount(articles, r.ids)]
          ELSE /\ DestroyCategories(stored)
               /\ resp' = [Response(r.op, r.user, 200) EXCEPT
                             !.count = Cardinality(stored),
                             !.total = r.total,
                             !.errors = r.errors]
     /\ UNCHANGED <<seq, tags, article_tags, moments, projects, media, files,
                    comments, messages>>

\* POST /articles/batch-update-status up to the transaction: the articles are
\* read (rows: the instances of updatableIds) and the permissions checked
articleBatchUpdateStatusFind(user, ids, status) ==
  LET found == FoundIds(articles, ids)
      updatableIds == ArticlePermitted(user, found)
  IN IF found = {}
       THEN /\ resp' = Response("articleBatchUpdateStatus", user, 400)
            /\ UNCHANGED <<seq, tables, pending>>
       ELSE /\ Len(pending) < MaxPending
            /\ pending' = Append(pending,
                 [op |-> "articleBatchUpdateStatus", user |-> user,
                  rows |-> [a \in updatableIds |-> articles[a]], status |-> status,
                  total |-> Len(ids), errors |-> ArticleErrors(user, found)])
            /\ UNCHANGED <<seq, tables, resp>>

\* The transaction of the i-th pending batch status update, and its answer.
\* To publish, each instance read before the transaction is updated with the
\* status, and with published_at = now when the instance holds none; the
\* UPDATE writes the attributes that differ from the instance's.  To draft,
\* one UPDATE sets the status of the rows of updatableIds.
FinishArticleBatch(i, now) ==
  LET r == pending[i]
      set(old) == IF old.published_at = NULL
                    THEN [status |-> r.status, published_at |-> now]
                    ELSE [status |-> r.status]
      fields(a) == IF r.status = "published" THEN Changed(r.rows[a], set(r.rows[a]))
                                             ELSE [status |-> r.status]
  IN /\ i \in DOMAIN pending
     /\ pending' = Without(pending, i)
     /\ articles' = [a \in DOMAIN articles |->
                       IF a \in DOMAIN r.rows
                         THEN [f \in DOMAIN articles[a] |->
                                 IF f \in DOMAIN fields(a) THEN fields(a)[f]
                                                           ELSE articles[a][f]]
                         ELSE articles[a]]
     /\ resp' = [Response(r.op, r.user, 200) EXCEPT
                   !.count = Cardinality(DOMAIN r.rows),
                   !.total = r.total,
                   !.errors = r.errors]
     /\ UNCHANGED <<seq, categories, tags, article_tags, moments, projects, media, files,
                    comments, messages>>

\* the value a like counter is followed up to
MaxLikes == 2

\* POST /messages/:id/like up to message.save(): the message is read and
\* message.likes += 1 has set the instance's value
likeMessageFind(id) ==
  IF id \notin DOMAIN messages
    THEN /\ resp' = Response("likeMessage", NoUser, 404)
         /\ UNCHANGED <<seq, tables, pending>>
  ELSE /\ Len(pending) < MaxPending
       /\ messages[id].likes < MaxLikes
       /\ pending' = Append(pending,
                        [op |-> "likeMessage", user |-> NoUser, id |-> id,
                         row |-> messages[id],
                         fields |-> [likes |-> messages[id].likes + 1]])
       /\ UNCHANGED <<seq, tables, resp>>

\* message.save() of the i-th pending like: UPDATE messages SET likes = the
\* instance's value, and the answer { likes: message.likes }
likeMessageSave(i) ==
  LET r == pending[i] IN
  /\ i \in DOMAIN pending
  /\ r.op = "likeMessage"
  /\ pending' = Without(pending, i)
  /\ messages' = Write(messages, r.id, r.fields)
  /\ resp' = [Response("likeMessage", NoUser, 200) EXCEPT
                !.items = {r.id}, !.count = r.fields.likes]
  /\ UNCHANGED <<seq, articles, categories, tags, article_tags, moments, projects,
                 media, files, comments>>

(***************************************************************************)
(* Specifications                                                          *)
(***************************************************************************)
\* rows inserted so far, over all tables
TotalRows == seq.article + seq.category + seq.tag + seq.moment + seq.project
             + seq.media + seq.comment + seq.message
\* rows ever inserted into the whole database in one behaviour
MaxTotal == 2
Budget == TotalRows < MaxTotal

\* a category_id sent as a number
NumCategory == {{}} \cup {{[n |-> c, str |-> FALSE]} : c \in Ids}
Status == {"draft", "published"}
ProjectStatus == {"draft", "completed"}
\* the instant a request reads from the clock
Now == 1

\* Batch operations over every resource, no database error
BatchCreate ==
  \/ \E u \in Owners, c \in NumCategory :
        Budget /\ createArticle(u, c, {}, {}, {}, Now)
  \/ Budget /\ createCategory(AdminUser, 0)
  \/ Budget /\ createTag(AdminUser, "#000000")
  \/ \E u \in Owners : Budget /\ createMoment(u, "a", {})
  \/ \E u \in Owners : Budget /\ createProject(u, {}, {})
  \/ \E u \in Owners : Budget /\ uploadMedia(u, "a")

BatchDelete ==
  \/ \E u \in Callers, ids \in IdLists : batchDeleteArticles(u, ids, FALSE)
  \/ \E u \in Callers, ids \in IdLists : batchDeleteMoments(u, ids)
  \/ \E u \in Callers, ids \in IdLists : batchDeleteProjects(u, ids)
  \/ \E u \in Callers, ids \in IdLists : batchDeleteMedia(u, ids, NULL)
  \/ \E ids \in IdLists : batchDeleteCategories(AdminUser, ids)
  \/ \E ids \in IdLists : batchDeleteTags(AdminUser, ids)

BatchUpdate ==
  \/ \E u \in Callers, ids \in IdLists, st \in Status :
        articleBatchUpdateStatus(u, ids, st, Now, FALSE)
  \/ \E u \in Callers, ids \in IdLists, st \in ProjectStatus :
        projectBatchUpdateStatus(u, ids, st)
  \/ \E u \in Callers, ids \in IdLists, top \in BOOLEAN : batchUpdateTop(u, ids, top)

NextBatch == BatchCreate \/ BatchDelete \/ BatchUpdate
SpecBatch == Init /\ [][NextBatch]_vars

\* Single update and delete of every owned resource; comments and messages are
\* also created without credential
Authors == Owners \cup {NoUser}
OwnerCreate ==
  \/ \E u \in Owners : Budget /\ createArticle(u, {}, {}, {}, {}, Now)
  \/ \E u \in Owners : Budget /\ createMoment(u, "a", {})
  \/ \E u \in Owners : Budget /\ createProject(u, {}, {})
  \/ \E u \in Owners : Budget /\ uploadMedia(u, "a")
  \/ \E u \in Authors, a \in Ids : Budget /\ createComment(u, a, {}, "a")
  \/ \E u \in Authors : Budget /\ createMessage(u, {}, "a", {})

OwnerUpdate ==
  \/ \E u \in Callers, id \in Ids, st \in Opt(Status) :
        updateArticle(u, id, {}, {}, st, {}, Now)
  \/ \E u \in Callers, id \in Ids, c \in Opt({"b"}) : updateMoment(u, id, c, {}, {})
  \/ \E u \in Callers, id \in Ids, st \in Opt(ProjectStatus) : updateProject(u, id, st, {})
  \/ \E u \in Callers, id \in Ids, f \in Opt({"b"}) : updateMedia(u, id, f)
  \/ \E u \in Callers, id \in Ids, c \in Opt({"b"}) : updateComment(u, id, c)
  \/ \E u \in Callers, id \in Ids, c \in Opt({"b"}) : updateMessage(u, id, c, {})

OwnerDelete ==
  \/ \E u \in Callers, id \in Ids : deleteArticle(u, id)
  \/ \E u \in Callers, id \in Ids : deleteMoment(u, id)
  \/ \E u \in Callers, id \in Ids : deleteProject(u, id)
  \/ \E u \in Callers, id \in Ids : deleteMedia(u, id)
  \/ \E u \in Callers, id \in Ids : deleteComment(u, id)
  \/ \E u \in Callers, id \in Ids : deleteMessage(u, id)

NextOwner == OwnerCreate \/ OwnerUpdate \/ OwnerDelete
SpecOwner == Init /\ [][NextOwner]_vars

\* Moments written by their owners and read by anybody
Visibility == {"public", "private", "friends"}
Readers == Callers \cup {NoUser}
MomentWrite ==
  \/ \E u \in Owners, v \in Opt(Visibility) : createMoment(u, "a", v)
  \/ \E u \in Callers, id \in Ids, v \in Opt(Visibility) : updateMoment(u, id, {}, {}, v)
  \/ \E u \in Callers, id \in Ids : deleteMoment(u, id)
  \/ \E u \in Callers, id \in Ids, pin \in BOOLEAN : togglePin(u, id, pin)

MomentRead ==
  \/ \E u \in Readers, uid \in Opt({o.id : o \in Owners}), v \in Opt(Visibility) :
        getMoments(u, uid, v)
  \/ \E u \in Readers, id \in Ids : getMomentById(u, id)

NextMoment == MomentWrite \/ MomentRead
SpecMoment == Init /\ [][NextMoment]_vars

\* Categories, tags and the articles that carry them; every request is sent
\* by the admin, the merge target as a number or as a numeric string
TagSets == Opt(SUBSET Ids)
TaxonomyCreate ==
  \/ createCategory(AdminUser, 0)
  \/ createTag(AdminUser, "#000000")
  \/ \E c \in NumCategory, ts \in TagSets : createArticle(AdminUser, c, ts, {}, {}, Now)

TaxonomyArticle ==
  \/ \E id \in Ids, c \in NumCategory, ts \in TagSets :
        updateArticle(AdminUser, id, c, ts, {}, {}, Now)
  \/ \E id \in Ids : deleteArticle(AdminUser, id)

TaxonomyDelete ==
  \/ \E id \in Ids : deleteCategory(AdminUser, id)
  \/ \E ids \in IdLists : batchDeleteCategories(AdminUser, ids)
  \/ \E id \in Ids : deleteTag(AdminUser, id)
  \/ \E ids \in IdLists : batchDeleteTags(AdminUser, ids)

TaxonomyMerge ==
  \/ \E src \in IdLists, t \in IntLike(Ids) : batchMergeCategories(AdminUser, src, t)
  \/ \E src \in IdLists, t \in IntLike(Ids) : batchMergeTags(AdminUser, src, t)

NextTaxonomy == TaxonomyCreate \/ TaxonomyArticle \/ TaxonomyDelete \/ TaxonomyMerge
SpecTaxonomy == Init /\ [][NextTaxonomy]_vars

\* Batch deletes during which a statement may raise a database error
FailCreate ==
  \/ \E u \in Owners : Budget /\ createArticle(u, {}, {}, {}, {}, Now)
  \/ \E u \in Owners : Budget /\ uploadMedia(u, "a")
  \/ \E u \in Authors, a \in Ids : Budget /\ createComment(u, a, {}, "a")
  \/ \E u \in Authors : Budget /\ createMessage(u, {}, "a", {})

FailBatch ==
  \/ \E u \in Callers, ids \in IdLists, fail \in BOOLEAN : batchDeleteArticles(u, ids, fail)
  \/ \E u \in Callers, ids \in IdLists, st \in Status, fail \in BOOLEAN :
        articleBatchUpdateStatus(u, ids, st, Now, fail)
  \/ \E u \in Callers, ids \in IdLists, fail \in {NULL} \cup Ids :
        batchDeleteMedia(u, ids, fail)
  \/ \E ids \in IdLists, failAt \in 0..MaxList : batchDeleteComments(AdminUser, ids, failAt)
  \/ \E ids \in IdLists, failAt \in 0..MaxList : batchDeleteMessages(AdminUser, ids, failAt)

NextFail == FailCreate \/ FailBatch
SpecFail == Init /\ [][NextFail]_vars

\* Article status changes read the wall clock: the instant is any of a few
\* values, an earlier one included (the clock of the host may be set back)
MaxTime == 2
Times == 1..MaxTime
PublishCreate ==
  \E u \in Owners, st \in Opt(Status), now \in Times : createArticle(u, {}, {}, st, {}, now)

PublishUpdate ==
  \/ \E u \in Callers, id \in Ids, st \in Opt(Status), top \in Opt(BOOLEAN), now \in Times :
        updateArticle(u, id, {}, {}, st, top, now)
  \/ \E u \in Callers, ids \in IdLists, st \in Status, now \in Times :
        articleBatchUpdateStatus(u, ids, st, now, FALSE)

NextPublish == PublishCreate \/ PublishUpdate
SpecPublish == Init /\ [][NextPublish]_vars

\* Comment threads under one article and message threads of the guestbook:
\* comments and messages are written with or without credential, as top-level
\* entries or in reply to any id, deleted one by one or in batches, and read
\* with the article or as its comment list
ThreadLists == UNION {[1..n -> ThreadIds] : n \in 1..MaxList}
ThreadBudget == seq.comment + seq.message < MaxThread
ThreadCreate ==
  \/ seq.article = 0 /\ createArticle(AdminUser, {}, {}, {"published"}, {}, Now)
  \/ \E u \in Readers, p \in Opt(ThreadIds) :
        ThreadBudget /\ createComment(u, 1, p, "a")
  \/ \E u \in Readers, r \in Opt(ThreadIds) :
        ThreadBudget /\ createMessage(u, r, "a", {})

ThreadDelete ==
  \/ \E u \in Callers, id \in ThreadIds : deleteComment(u, id)
  \/ \E u \in Callers, id \in ThreadIds : deleteMessage(u, id)
  \/ \E ids \in ThreadLists : batchDeleteComments(AdminUser, ids, 0)
  \/ \E ids \in ThreadLists : batchDeleteMessages(AdminUser, ids, 0)

ThreadRead ==
  \/ \E u \in Readers : getCommentsByArticle(u, 1)
  \/ \E u \in Readers : getArticleById(u, 1)

NextThread == ThreadCreate \/ ThreadDelete \/ ThreadRead
SpecThread == Init /\ [][NextThread]_vars

\* Articles written as draft or published by two authors and read by the
\* admin, by one of the authors and without credential
StatusFilter == Opt(Status)
DraftWrite ==
  \/ \E u \in Owners, st \in Opt(Status) : createArticle(u, {}, {}, st, {}, Now)
  \/ \E u \in Callers, id \in Ids, st \in Opt(Status) :
        updateArticle(u, id, {}, {}, st, {}, Now)

DraftRead ==
  \/ \E u \in Readers, st \in StatusFilter : getArticles(u, st, NoQuery)
  \/ \E u \in Readers, id \in Ids : getArticleById(u, id)

NextDraft == DraftWrite \/ DraftRead
SpecDraft == Init /\ [][NextDraft]_vars

\* The pinned flag of articles and the featured flag of projects, sent with a
\* create, with a single update and with the batch operation, by the admin and
\* by owners who are not admins
FlagCreate ==
  \/ \E u \in Principals, top \in Opt(BOOLEAN) :
        Budget /\ createArticle(u, {}, {}, {}, top, Now)
  \/ \E u \in Principals, f \in Opt(BOOLEAN) : Budget /\ createProject(u, {}, f)

FlagUpdate ==
  \/ \E u \in Principals, id \in Ids, top \in Opt(BOOLEAN) :
        updateArticle(u, id, {}, {}, {}, top, Now)
  \/ \E u \in Principals, id \in Ids, f \in Opt(BOOLEAN) : updateProject(u, id, {}, f)
  \/ \E u \in Principals, ids \in IdLists, top \in BOOLEAN : batchUpdateTop(u, ids, top)
  \/ \E u \in Principals, ids \in IdLists, f \in BOOLEAN : batchUpdateFeatured(u, ids, f)

NextFlag == FlagCreate \/ FlagUpdate
SpecFlag == Init /\ [][NextFlag]_vars

\* Paginated lists.  The article list is followed on every value of page and
\* limit, those the route's validation refuses included; the project list on
\* the values its validation lets through.
PageNumbers == {-1, 0, 1, 2, 101}
Queries == [page : Opt(QueryValue(PageNumbers)), limit : Opt(QueryValue(PageNumbers))]
PageCreate ==
  \/ \E st \in Status, top \in BOOLEAN :
        createArticle(AdminUser, {}, {}, {st}, {top}, Now)
  \/ \E st \in ProjectStatus : createProject(AdminUser, {st}, {})

PageRead ==
  \/ \E u \in {AdminUser, NoUser}, st \in StatusFilter, q \in Queries :
        getArticles(u, st, q)
  \/ \E u \in {AdminUser, NoUser}, q \in {v \in Queries : projectQueryValidation(v)} :
        getProjects(u, {}, q)

NextPage == PageCreate \/ PageRead
SpecPage == Init /\ [][NextPage]_vars

\* One article and one project, read, counted as viewed and updated by requests
\* that overlap.  An update body carries any of status, is_top / is_featured
\* and a view count.
ArticleBodies ==
  {Attrs(S, [status |-> st, is_top |-> TRUE, views |-> 0]) :
     S \in SUBSET {"status", "is_top", "views"}, st \in {"draft"}}
ProjectBodies ==
  {Attrs(S, [status |-> st, is_featured |-> TRUE, view_count |-> 0]) :
     S \in SUBSET {"status", "is_featured", "view_count"}, st \in {"draft"}}

ViewCreate ==
  \/ seq.article = 0 /\ createArticle(AdminUser, {}, {}, {"published"}, {}, Now)
  \/ seq.project = 0 /\ createProject(AdminUser, {"completed"}, {})

ViewStart ==
  \/ \E id \in Ids : getArticleByIdFind(NoUser, id)
  \/ \E id \in Ids : incrementViewFind(id)
  \/ \E id \in Ids, body \in ArticleBodies :
        updateArticleFind(AdminUser, id, body, Now)
  \/ \E id \in Ids, body \in ProjectBodies :
        updateProjectFind(AdminUser, id, body)

ViewFinish == \E i \in 1..MaxPending : Finish(i)

NextView == ViewCreate \/ ViewStart \/ ViewFinish
SpecView == Init /\ [][NextView]_vars

\* Media files uploaded, referenced by content and deleted one by one or in
\* batches
MediaCreate ==
  \/ \E u \in Owners : uploadMedia(u, "a")
  \/ \E id \in Ids : mediaReferenced(id)

MediaDelete ==
  \/ \E u \in Callers, id \in Ids : deleteMedia(u, id)
  \/ \E u \in Callers, ids \in IdLists : batchDeleteMedia(u, ids, NULL)

NextMedia == MediaCreate \/ MediaDelete
SpecMedia == Init /\ [][NextMedia]_vars

\* Categories created, deleted and reordered, and tags created and recoloured,
\* by the admin; a reorder carries one or two pairs, the same id twice
\* included; a statement of the request may raise a database error
SortOrders == {1, 2}
Orders == UNION {[1..n -> [id : Ids, sort_order : SortOrders]] : n \in 1..MaxList}
Failures == {"none", "update", "reload"}
OrderCreate ==
  \/ createCategory(AdminUser, 0)
  \/ createTag(AdminUser, "#000000")

OrderDelete == \E id \in Ids : deleteCategory(AdminUser, id)

OrderUpdate ==
  \/ \E orders \in Orders, fail \in Failures : batchUpdateOrder(AdminUser, orders, fail)
  \/ \E ids \in IdLists, fail \in Failures :
        batchUpdateTagColor(AdminUser, ids, "#111111", fail)

NextOrder == OrderCreate \/ OrderDelete \/ OrderUpdate
SpecOrder == Init /\ [][NextOrder]_vars

\* Single updates by the admin, every optional field of the request present
\* or absent, on one article that carries a category and tags, one moment and
\* one project
ImageCounts == {1, 10}
UpdateCreate ==
  \/ seq.category = 0 /\ createCategory(AdminUser, 0)
  \/ seq.tag = 0 /\ createTag(AdminUser, "#000000")
  \/ \E c \in NumCategory, ts \in TagSets :
        seq.article = 0 /\ createArticle(AdminUser, c, ts, {}, {}, Now)
  \/ seq.moment = 0 /\ createMoment(AdminUser, "a", {})
  \/ seq.project = 0 /\ createProject(AdminUser, {}, {})

UpdateOne ==
  \/ \E id \in Ids, c \in NumCategory, ts \in TagSets, st \in Opt({"published"}),
        top \in Opt({TRUE}) : updateArticle(AdminUser, id, c, ts, st, top, Now)
  \/ \E id \in Ids, c \in Opt({"", "b"}), n \in Opt(ImageCounts), v \in Opt({"private"}) :
        updateMoment(AdminUser, id, c, n, v)
  \/ \E id \in Ids, st \in Opt({"completed"}), f \in Opt({TRUE}) :
        updateProject(AdminUser, id, st, f)

NextUpdate == UpdateCreate \/ UpdateOne
SpecUpdate == Init /\ [][NextUpdate]_vars

\* Category deletes and merges that overlap with each other and with the
\* articles that take a category
RaceWrite ==
  \/ createCategory(AdminUser, 0)
  \/ \E c \in NumCategory : seq.article = 0 /\ createArticle(AdminUser, c, {}, {}, {}, Now)
  \/ \E id \in Ids, c \in NumCategory : updateArticle(AdminUser, id, c, {}, {}, {}, Now)

RaceStart ==
  \/ \E id \in Ids : deleteCategoryCheck(AdminUser, id)
  \/ \E ids \in IdLists : batchDeleteCategoriesCheck(AdminUser, ids)
  \/ \E src \in IdLists, t \in Ids : batchMergeCategoriesFind(AdminUser, src, t)

RaceFinish == \E i \in 1..MaxPending : FinishCategory(i)

NextRace == RaceWrite \/ RaceStart \/ RaceFinish
SpecRace == Init /\ [][NextRace]_vars

\* One article whose status is changed by single updates and batch updates
\* that overlap, each reading the clock when it stamps
StampCreate == seq.article = 0 /\ createArticle(AdminUser, {}, {}, {}, {}, Now)

StampStart ==
  \/ \E id \in Ids, st \in Status, t \in Times :
        updateArticleFind(AdminUser, id, [status |-> st], t)
  \/ \E ids \in IdLists, st \in Status : articleBatchUpdateStatusFind(AdminUser, ids, st)

StampFinish ==
  \/ \E i \in DOMAIN pending : pending[i].op = "updateArticle" /\ Finish(i)
  \/ \E i \in DOMAIN pending, t \in Times :
        pending[i].op = "articleBatchUpdateStatus" /\ FinishArticleBatch(i, t)

NextStamp == StampCreate \/ StampStart \/ StampFinish
SpecStamp == Init /\ [][NextStamp]_vars

\* Batch requests on moments and projects, whose handlers open a transaction
\* before they look at the body; the status is a name or an array of names
BodyStatus == ProjectStatus \cup {"[draft]"}
TxCreate ==
  \/ \E u \in Owners : createMoment(u, "a", {})
  \/ \E u \in Owners : createProject(u, {}, {})

TxBatch ==
  \/ \E u \in Callers, ids \in IdLists : batchDeleteMoments(u, ids)
  \/ \E u \in Callers, ids \in IdLists : batchDeleteProjects(u, ids)
  \/ \E u \in Callers, ids \in IdLists, st \in BodyStatus :
        projectBatchUpdateStatus(u, ids, st)

NextTx == TxCreate \/ TxBatch
SpecTx == Init /\ [][NextTx]_vars

\* Messages left by visitors and users, deleted by the admin, and liked by
\* anyone; a like may be between its read and its save while others run
LikeCreate == \E u \in {NoUser} \cup Owners : createMessage(u, {}, "a", {})

LikeDelete == \E id \in ThreadIds : deleteMessage(AdminUser, id)

LikeStart == \E id \in ThreadIds : likeMessageFind(id)

LikeFinish == \E i \in 1..MaxPending : likeMessageSave(i)

NextLike == LikeCreate \/ LikeDelete \/ LikeStart \/ LikeFinish
SpecLike == Init /\ [][NextLike]_vars

\* Every owned resource created by a user (comments and messages also without
\* credential), then updated by the admin or by user 2; the bodies of the
\* article and project updates carry any of status and author_id, and one
\* such update at a time is between its read and its write
OwnerBodies ==
  {Attrs(S, [status |-> "draft", author_id |-> AdminUser.id]) :
     S \in SUBSET {"status", "author_id"}}

FixedCreate ==
  \/ \E u \in Owners : Budget /\ createArticle(u, {}, {}, {"published"}, {}, Now)
  \/ \E u \in Owners : Budget /\ createMoment(u, "a", {})
  \/ \E u \in Owners : Budget /\ createProject(u, {"completed"}, {})
  \/ \E u \in Owners : Budget /\ uploadMedia(u, "a")
  \/ \E u \in Authors, a \in Ids : Budget /\ createComment(u, a, {}, "a")
  \/ \E u \in Authors : Budget /\ createMessage(u, {}, "a", {})

FixedUpdate ==
  \/ \E u \in Callers, id \in Ids, c \in Opt({"b"}) : updateMoment(u, id, c, {}, {})
  \/ \E u \in Callers, id \in Ids, pin \in BOOLEAN : togglePin(u, id, pin)
  \/ \E u \in Callers, id \in Ids, f \in Opt({"b"}) : updateMedia(u, id, f)
  \/ \E u \in Callers, id \in Ids, c \in Opt({"b"}) : updateComment(u, id, c)
  \/ \E u \in Callers, id \in Ids, c \in Opt({"b"}) : updateMessage(u, id, c, {})
  \/ \E u \in Callers, ids \in IdLists : projectBatchUpdateStatus(u, ids, "archived")
  \/ \E u \in Callers, ids \in IdLists : batchUpdateFeatured(u, ids, TRUE)

FixedStart ==
  /\ pending = <<>>
  /\ \/ \E u \in Callers, id \in Ids, body \in OwnerBodies :
           updateArticleFind(u, id, body, Now)
     \/ \E u \in Callers, id \in Ids, body \in OwnerBodies :
           updateProjectFind(u, id, body)

FixedFinish == \E i \in 1..MaxPending : Finish(i)

NextFixed == FixedCreate \/ FixedUpdate \/ FixedStart \/ FixedFinish
SpecFixed == Init /\ [][NextFixed]_vars

(***************************************************************************)
(* Batch delete: what the response accounts for                            *)
(***************************************************************************)
\* the requested ids the step did not remove from the table (t before, t2 after)
NotDeleted(t, t2, ids) == {i \in Range(ids) : ~(i \in DOMAIN t /\ i \notin DOMAIN t2)}
\* the requested ids that name a row before and after the step
StoredKept(t, t2, ids) == Range(ids) \cap DOMAIN t \cap DOMAIN t2
Reported(errors) == {e.id : e \in errors}
NumDeleted(t, t2) == Cardinality(DOMAIN t \ DOMAIN t2)

\* the step answered the operation op
Did(op) == resp'.op = op

\* a successful batch delete whose errors array has one entry per skipped row
PerRowAccount(t, t2, ids) ==
  resp'.code = 200 =>
    /\ resp'.count <= Len(ids)
    /\ resp'.count = NumDeleted(t, t2)
    /\ Reported(resp'.errors) = StoredKept(t, t2, ids)

Untouched(t, t2, S) == \A i \in S : i \in DOMAIN t2 /\ t2[i] = t[i]

\* C2: a batch delete or batch status update of articles, moments, projects or
\* media sent by a caller who is not an admin leaves every targeted row owned by
\* somebody else stored with the same field values.
C2_ForeignRowsUntouched ==
  [][\A u \in Callers, ids \in IdLists : u.role # "admin" =>
       /\ (Did("batchDeleteArticles") /\ batchDeleteArticles(u, ids, FALSE))
            => Untouched(articles, articles',
                         {i \in FoundIds(articles, ids) : articles[i].author_id # u.id})
       /\ (Did("articleBatchUpdateStatus")
           /\ \E st \in Status : articleBatchUpdateStatus(u, ids, st, Now, FALSE))
            => Untouched(articles, articles',
                         {i \in FoundIds(articles, ids) : articles[i].author_id # u.id})
       /\ (Did("batchDeleteMoments") /\ batchDeleteMoments(u, ids))
            => Untouched(moments, moments',
                         {i \in FoundIds(moments, ids) : moments[i].user_id # u.id})
       /\ (Did("batchDeleteProjects") /\ batchDeleteProjects(u, ids))
            => Untouched(projects, projects',
                         {i \in FoundIds(projects, ids) : projects[i].author_id # u.id})
       /\ (Did("projectBatchUpdateStatus")
           /\ \E st \in ProjectStatus : projectBatchUpdateStatus(u, ids, st))
            => Untouched(projects, projects',
                         {i \in FoundIds(projects, ids) : projects[i].author_id # u.id})
       /\ (Did("batchDeleteMedia") /\ batchDeleteMedia(u, ids, NULL))
            => /\ Untouched(media, media',
                            {i \in FoundIds(media, ids) : media[i].uploader_id # u.id})
               /\ {i \in FoundIds(media, ids) : media[i].uploader_id # u.id} \cap files
                    \subseteq files'
    ]_vars

\* a user published their own article in a batch that also named the draft of
\* another user, which is still a draft
C2_Witness ==
  /\ resp.op = "articleBatchUpdateStatus"
  /\ resp.code = 200
  /\ resp.count = 1
  /\ resp.errors = {Err(2, "no permission")}
  /\ DOMAIN articles = {1, 2}
  /\ articles[1].author_id = 2 /\ articles[1].status = "published"
  /\ articles[2].author_id = 3 /\ articles[2].status = "draft"

(***************************************************************************)
(* Batch operations: every item rejected                                   *)
(***************************************************************************)
\* some requested id names a row and the caller may act on none of the rows named
ArticlesRejected(u, ids) ==
  /\ FoundIds(articles, ids) # {}
  /\ \A i \in FoundIds(articles, ids) : ~(u.id = articles[i].author_id \/ u.role = "admin")
MomentsRejected(u, ids) ==
  /\ FoundIds(moments, ids) # {}
  /\ \A i \in FoundIds(moments, ids) : ~(u.id = moments[i].user_id \/ u.role = "admin")
ProjectsRejected(u, ids) ==
  /\ FoundIds(projects, ids) # {}
  /\ \A i \in FoundIds(projects, ids) : ~(u.id = projects[i].author_id \/ u.role = "admin")
MediaRejected(u, ids) ==
  /\ FoundIds(media, ids) # {}
  /\ \A i \in FoundIds(media, ids) : ~(u.id = media[i].uploader_id \/ u.role = "admin")
\* some requested id names a category and every category named has an article
CategoriesRejected(ids) ==
  /\ FoundIds(categories, ids) # {}
  /\ \A c \in FoundIds(categories, ids) : \E a \in DOMAIN articles : articles[a].category_id = c
\* a caller who is not an admin asks to pin stored articles
TopRejected(u, ids) == FoundIds(articles, ids) # {} /\ u.role # "admin"

\* the success response the statement describes, with nothing changed
RejectedAsSuccess ==
  /\ resp'.code = 200
  /\ resp'.count = 0
  /\ resp'.errors # {}
  /\ UNCHANGED <<seq, tables>>

\* C7 as stated: a batch whose items are all rejected by authorization or by a
\* domain constraint answers 200 with count 0 and a populated errors list, and
\* changes nothing.
C7_AllRejectedAnswersSuccess ==
  [][\A u \in Callers, ids \in IdLists :
       /\ (Did("batchDeleteArticles") /\ ArticlesRejected(u, ids)
           /\ batchDeleteArticles(u, ids, FALSE)) => RejectedAsSuccess
       /\ (Did("articleBatchUpdateStatus") /\ ArticlesRejected(u, ids)
           /\ \E st \in Status : articleBatchUpdateStatus(u, ids, st, Now, FALSE))
            => RejectedAsSuccess
       /\ (Did("batchUpdateTop") /\ TopRejected(u, ids)
           /\ \E top \in BOOLEAN : batchUpdateTop(u, ids, top)) => RejectedAsSuccess
       /\ (Did("batchDeleteMoments") /\ MomentsRejected(u, ids)
           /\ batchDeleteMoments(u, ids)) => RejectedAsSuccess
       /\ (Did("batchDeleteProjects") /\ ProjectsRejected(u, ids)
           /\ batchDeleteProjects(u, ids)) => RejectedAsSuccess
       /\ (Did("projectBatchUpdateStatus") /\ ProjectsRejected(u, ids)
           /\ \E st \in ProjectStatus : projectBatchUpdateStatus(u, ids, st))
            => RejectedAsSuccess
       /\ (Did("batchDeleteMedia") /\ MediaRejected(u, ids)
           /\ batchDeleteMedia(u, ids, NULL)) => RejectedAsSuccess
       /\ (Did("batchDeleteCategories") /\ CategoriesRejected(ids)
           /\ batchDeleteCategories(AdminUser, ids)) => RejectedAsSuccess
    ]_vars

\* C7 amended: a batch whose items are all rejected changes nothing; the batch
\* delete of articles, moments and media and the batch status update of articles
\* answer 200 with count 0 and one errors entry per stored item; the batch delete
\* and batch status update of projects and the batch pin of articles answer 403
\* without an errors list; the batch delete of categories answers 400 with one
\* errors entry per category.
C7_AllRejectedChangesNothing ==
  [][\A u \in Callers, ids \in IdLists :
       /\ (Did("batchDeleteArticles") /\ ArticlesRejected(u, ids)
           /\ batchDeleteArticles(u, ids, FALSE))
            => /\ RejectedAsSuccess
               /\ Reported(resp'.errors) = FoundIds(articles, ids)
       /\ (Did("articleBatchUpdateStatus") /\ ArticlesRejected(u, ids)
           /\ \E st \in Status : articleBatchUpdateStatus(u, ids, st, Now, FALSE))
            => /\ RejectedAsSuccess
               /\ Reported(resp'.errors) = FoundIds(articles, ids)
       /\ (Did("batchDeleteMoments") /\ MomentsRejected(u, ids)
           /\ batchDeleteMoments(u, ids))
            => /\ RejectedAsSuccess
               /\ Reported(resp'.errors) = FoundIds(moments, ids)
       /\ (Did("batchDeleteMedia") /\ MediaRejected(u, ids)
           /\ batchDeleteMedia(u, ids, NULL))
            => /\ RejectedAsSuccess
               /\ Reported(resp'.errors) = FoundIds(media, ids)
       /\ (Did("batchUpdateTop") /\ TopRejected(u, ids)
           /\ \E top \in BOOLEAN : batchUpdateTop(u, ids, top))
            => /\ resp'.code = 403 /\ resp'.errors = {}
               /\ UNCHANGED <<seq, tables>>
       /\ (Did("batchDeleteProjects") /\ ProjectsRejected(u, ids)
           /\ batchDeleteProjects(u, ids))
            => /\ resp'.code = 403 /\ resp'.errors = {}
               /\ UNCHANGED <<seq, tables>>
       /\ (Did("projectBatchUpdateStatus") /\ ProjectsRejected(u, ids)
           /\ \E st \in ProjectStatus : projectBatchUpdateStatus(u, ids, st))
            => /\ resp'.code = 403 /\ resp'.errors = {}
               /\ UNCHANGED <<seq, tables>>
       /\ (Did("batchDeleteCategories") /\ CategoriesRejected(ids)
           /\ batchDeleteCategories(AdminUser, ids))
            => /\ resp'.code = 400 /\ resp'.count = 0
               /\ Reported(resp'.errors) = FoundIds(categories, ids)
               /\ UNCHANGED <<seq, tables>>
    ]_vars

\* the batch delete of a category that has an article was refused with the
\* category named in errors, and the category is still stored
C7_Witness ==
  /\ resp.op = "batchDeleteCategories"
  /\ resp.code = 400
  /\ resp.errors = {Err(1, "has articles")}
  /\ 1 \in DOMAIN categories
  /\ \E a \in DOMAIN articles : articles[a].category_id = 1

(***************************************************************************)
(* Single update and delete by a caller who is neither owner nor admin     *)
(***************************************************************************)
\* the request was refused and nothing was written
Refused == resp'.code = 403 /\ UNCHANGED <<seq, tables>>
\* u may not act on the row id of table t, whose owner column holds owner
Stranger(u, t, id, owner) == u.role # "admin" /\ id \in DOMAIN t /\ owner # u.id

\* C3: an update or delete of an article, moment, project, media, comment or
\* message sent by an authenticated caller who is neither its owner nor an admin
\* is answered 403 and changes nothing; a comment or message without owner
\* (created without credential) is nobody's own.
C3_StrangerRefused ==
  [][\A u \in Callers, id \in Ids :
       /\ (Did("updateArticle") /\ Stranger(u, articles, id, articles[id].author_id)
           /\ \E st \in Opt(Status) : updateArticle(u, id, {}, {}, st, {}, Now)) => Refused
       /\ (Did("deleteArticle") /\ Stranger(u, articles, id, articles[id].author_id)
           /\ deleteArticle(u, id)) => Refused
       /\ (Did("updateMoment") /\ Stranger(u, moments, id, moments[id].user_id)
           /\ \E c \in Opt({"b"}) : updateMoment(u, id, c, {}, {})) => Refused
       /\ (Did("deleteMoment") /\ Stranger(u, moments, id, moments[id].user_id)
           /\ deleteMoment(u, id)) => Refused
       /\ (Did("updateProject") /\ Stranger(u, projects, id, projects[id].author_id)
           /\ \E st \in Opt(ProjectStatus) : updateProject(u, id, st, {})) => Refused
       /\ (Did("deleteProject") /\ Stranger(u, projects, id, projects[id].author_id)
           /\ deleteProject(u, id)) => Refused
       /\ (Did("updateMedia") /\ Stranger(u, media, id, media[id].uploader_id)
           /\ \E f \in Opt({"b"}) : updateMedia(u, id, f)) => Refused
       /\ (Did("deleteMedia") /\ Stranger(u, media, id, media[id].uploader_id)
           /\ deleteMedia(u, id)) => Refused
       /\ (Did("updateComment") /\ Stranger(u, comments, id, comments[id].user_id)
           /\ \E c \in Opt({"b"}) : updateComment(u, id, c)) => Refused
       /\ (Did("deleteComment") /\ Stranger(u, comments, id, comments[id].user_id)
           /\ deleteComment(u, id)) => Refused
       /\ (Did("updateMessage") /\ Stranger(u, messages, id, messages[id].user_id)
           /\ \E c \in Opt({"b"}) : updateMessage(u, id, c, {})) => Refused
       /\ (Did("deleteMessage") /\ Stranger(u, messages, id, messages[id].user_id)
           /\ deleteMessage(u, id)) => Refused
    ]_vars

\* the delete of a comment written without credential was refused to a user, and
\* the comment is still stored
C3_Witness ==
  /\ resp.op = "deleteComment"
  /\ resp.code = 403
  /\ \E c \in DOMAIN comments : comments[c].user_id = NULL /\ comments[c].content = "a"

(***************************************************************************)
(* Moments: what a reader is shown                                         *)
(***************************************************************************)
\* the moments of the response that u neither owns nor, as admin, oversees
ShownToStranger(u) ==
  {m \in resp'.items : u.role # "admin" /\ moments[m].user_id # u.id}

\* C4: to a caller who is neither an admin nor the owner of a moment, without
\* credential or with, the list (whatever its filters) and the get-by-id return
\* the moment only if its visibility is public.
C4_StrangerSeesOnlyPublic ==
  [][\A u \in Readers :
       /\ (Did("getMoments")
           /\ \E uid \in Opt({o.id : o \in Owners}), v \in Opt(Visibility) :
                 getMoments(u, uid, v))
            => \A m \in ShownToStranger(u) : moments[m].visibility = "public"
       /\ (Did("getMomentById") /\ \E id \in Ids : getMomentById(u, id))
            => \A m \in ShownToStranger(u) : moments[m].visibility = "public"
    ]_vars

(***************************************************************************)
(* Categories and the articles that reference them                         *)
(***************************************************************************)
\* every category an article names is stored
CategoryRefsValid ==
  \A a \in DOMAIN articles :
     articles[a].category_id # NULL => articles[a].category_id \in DOMAIN categories
\* some article names the category id
Referenced(id) == \E a \in DOMAIN articles : articles[a].category_id = id

C8_TargetAmongSourcesRefused ==
  [][\A src \in IdLists, t \in IntLike(Ids) :
       /\ (Did("batchMergeCategories") /\ batchMergeCategories(AdminUser, src, t))
            => /\ t.n \in FoundIds(categories, src)
                    => (resp'.code = 400 /\ UNCHANGED <<seq, tables>>)
               /\ resp'.code = 200 => t.n \in DOMAIN categories'
       /\ (Did("batchMergeTags") /\ batchMergeTags(AdminUser, src, t))
            => /\ t.n \in FoundIds(tags, src)
                    => (resp'.code = 400 /\ UNCHANGED <<seq, tables>>)
               /\ resp'.code = 200 => t.n \in DOMAIN tags'
    ]_vars

\* C9: after a tag merge answered 200 the articles tagged with the target are
\* those tagged with the target or with a source before, no join row names a
\* source, the source tags are gone and the target is stored, and the join rows
\* of every other tag are as before (a join row is a set member: an article
\* carries a tag at most once).
C9_TagMergePostcondition ==
  [][\A src \in IdLists, t \in IntLike(Ids) :
       (Did("batchMergeTags") /\ batchMergeTags(AdminUser, src, t) /\ resp'.code = 200)
         => /\ TaggedArticles(article_tags', {t.n})
                 = TaggedArticles(article_tags, {t.n} \cup Range(src))
            /\ TaggedArticles(article_tags', Range(src) \ {t.n}) = {}
            /\ DOMAIN tags' = DOMAIN tags \ (Range(src) \ {t.n})
            /\ {r \in article_tags' : r[2] \notin Range(src) \cup {t.n}}
                 = {r \in article_tags : r[2] \notin Range(src) \cup {t.n}}
    ]_vars

\* C10: after a category merge answered 200 every article of a source category
\* is in the target category, every other article is as before, the articles
\* are the same in number, the source categories are gone and the target is
\* stored; migrated_articles is the number of articles moved and the target's
\* reported article_count is its count before plus migrated_articles.
C10_CategoryMergePostcondition ==
  [][\A src \in IdLists, t \in IntLike(Ids) :
       (Did("batchMergeCategories") /\ batchMergeCategories(AdminUser, src, t)
        /\ resp'.code = 200)
         => /\ DOMAIN articles' = DOMAIN articles
            /\ \A a \in DOMAIN articles :
                 articles'[a] = IF articles[a].category_id \in Range(src)
                                  THEN [articles[a] EXCEPT !.category_id = t.n]
                                  ELSE articles[a]
            /\ DOMAIN categories' = DOMAIN categories \ (Range(src) \ {t.n})
            /\ t.n \in DOMAIN categories'
            /\ resp'.extra = ArticleCount(articles, Range(src) \ {t.n})
            /\ resp'.tcount = ArticleCount(articles, {t.n}) + resp'.extra
    ]_vars

(***************************************************************************)
(* Batch operations whose write fails                                      *)
(***************************************************************************)
\* the response is one failure and the database is as before the request
FailedWhole == resp'.code >= 400 /\ UNCHANGED <<seq, tables>>

\* C6: a batch whose write fails for some item persists none of its writes and
\* answers with a single failure; so for the batch delete of comments, messages
\* and media as for the batch delete and status update of articles.
C6_FailedBatchPersistsNothing ==
  [][\A u \in Callers, ids \in IdLists :
       /\ (Did("batchDeleteArticles") /\ FoundIds(articles, ids) # {}
           /\ batchDeleteArticles(u, ids, TRUE)) => FailedWhole
       /\ (Did("articleBatchUpdateStatus") /\ FoundIds(articles, ids) # {}
           /\ \E st \in Status : articleBatchUpdateStatus(u, ids, st, Now, TRUE))
            => FailedWhole
       /\ \A fail \in Ids :
            (Did("batchDeleteMedia") /\ fail \in MediaDeletable(u, FoundIds(media, ids))
             /\ batchDeleteMedia(u, ids, fail)) => FailedWhole
       /\ \A failAt \in 1..Len(ids) :
            (Did("batchDeleteComments") /\ batchDeleteComments(AdminUser, ids, failAt)
             /\ \E f \in Range(resp'.failures) : f.reason = "error") => FailedWhole
       /\ \A failAt \in 1..Len(ids) :
            (Did("batchDeleteMessages") /\ batchDeleteMessages(AdminUser, ids, failAt)
             /\ \E f \in Range(resp'.failures) : f.reason = "error") => FailedWhole
    ]_vars

(***************************************************************************)
(* Repeated merges                                                         *)
(***************************************************************************)
\* The same merge request sent once more in the current state: every answer it
\* can get is one of `codes`, carries no merged count, and leaves every table
\* as it is
RepeatedCategoryMerge(src, t, codes) ==
  ~ENABLED (/\ batchMergeCategories(AdminUser, src, t)
            /\ ~(resp'.code \in codes /\ resp'.count = 0 /\ UNCHANGED <<seq, tables>>))
RepeatedTagMerge(src, t, codes) ==
  ~ENABLED (/\ batchMergeTags(AdminUser, src, t)
            /\ ~(resp'.code \in codes /\ resp'.count = 0 /\ UNCHANGED <<seq, tables>>))

\* C11 as stated: the same merge of categories or of tags issued a second time
\* (its target not among its sources) leaves the stored state as after the
\* first call and is answered as a success that reports zero merged.
C11_SecondMergeReportsZero ==
  [][\A src \in IdLists, t \in IntLike(Ids) :
       /\ (Did("batchMergeCategories") /\ batchMergeCategories(AdminUser, src, t)
           /\ resp'.code = 200 /\ t.n \notin Range(src))
            => RepeatedCategoryMerge(src, t, {200})'
       /\ (Did("batchMergeTags") /\ batchMergeTags(AdminUser, src, t)
           /\ resp'.code = 200 /\ t.n \notin Range(src))
            => RepeatedTagMerge(src, t, {200})'
    ]_vars

\* C11: the same merge of categories or of tags issued a second time changes no
\* table (so the target's dependent count stays as after the first call) and is
\* refused: 400 when no source is left or the target is among the sources, 404
\* when the target is not stored.
C11_SecondMergeRefusedUnchanged ==
  [][\A src \in IdLists, t \in IntLike(Ids) :
       /\ (Did("batchMergeCategories") /\ batchMergeCategories(AdminUser, src, t))
            => RepeatedCategoryMerge(src, t, {400, 404})'
       /\ (Did("batchMergeTags") /\ batchMergeTags(AdminUser, src, t))
            => RepeatedTagMerge(src, t, {400, 404})'
    ]_vars

\* a merge has just moved an article (or a tagging) into its target, which is
\* still stored
C11_Witness ==
  /\ resp.op \in {"batchMergeCategories", "batchMergeTags"}
  /\ resp.code = 200
  /\ resp.count >= 1
  /\ resp.tcount >= 1

(***************************************************************************)
(* Publication time                                                        *)
(***************************************************************************)
\* one step seen from article id: stored before (a) and after (b)
PublishedAtStep(a, b) ==
  /\ a.published_at # NULL => b.published_at = a.published_at
  /\ b.published_at # a.published_at => (a.status = "draft" /\ b.status = "published")
  /\ (a.status = "draft" /\ b.status = "published") => b.published_at # NULL

\* C12: under any sequence of article create, single update and batch status
\* update, an article is created with a published_at exactly when it is created
\* published; published_at changes only on a step from draft to published that
\* finds it null, and once non-null keeps its value (through a repeated
\* publish, and through a return to draft and a new publish); every published
\* article has a non-null published_at.
C12_PublishedAtSetOnce ==
  /\ [](\A id \in DOMAIN articles :
          articles[id].status = "published" => articles[id].published_at # NULL)
  /\ [][/\ \A id \in DOMAIN articles \cap DOMAIN articles' :
             PublishedAtStep(articles[id], articles'[id])
        /\ \A id \in DOMAIN articles' \ DOMAIN articles :
             articles'[id].published_at # NULL <=> articles'[id].status = "published"
       ]_vars

\* an update or a batch status update has taken back to draft an article that
\* was published at the last instant, next to an article published at the first
C12_Witness ==
  /\ resp.op \in {"updateArticle", "articleBatchUpdateStatus"}
  /\ resp.code = 200
  /\ \E id, other \in DOMAIN articles :
       /\ articles[id].status = "draft"
       /\ articles[id].published_at = MaxTime
       /\ articles[other].status = "published"
       /\ articles[other].published_at = 1

(***************************************************************************)
(* Moderation state of a new comment and of a new message                  *)
(***************************************************************************)
\* C13: a comment created (201) by a request with a resolved principal is
\* stored with is_approved = TRUE and that principal's id, one created without
\* credential with is_approved = FALSE and no user; a message is stored with
\* status approved exactly when its creator was authenticated, pending
\* otherwise.
C13_ApprovedIffAuthenticated ==
  [][/\ \A u \in Authors, a \in Ids :
          (Did("createComment") /\ createComment(u, a, {}, "a") /\ resp'.code = 201)
            => /\ seq'.comment \in DOMAIN comments' \ DOMAIN comments
               /\ comments'[seq'.comment].is_approved = (u # NoUser)
               /\ comments'[seq'.comment].user_id = u.id
     /\ \A u \in Authors :
          (Did("createMessage") /\ createMessage(u, {}, "a", {}) /\ resp'.code = 201)
            => /\ seq'.message \in DOMAIN messages' \ DOMAIN messages
               /\ messages'[seq'.message].status
                    = IF u # NoUser THEN "approved" ELSE "pending"
               /\ messages'[seq'.message].user_id = u.id
    ]_vars

\* a message has just been created next to another one: one of the two by a
\* principal and approved, the other without credential and pending
C13_Witness ==
  /\ resp.op = "createMessage"
  /\ resp.code = 201
  /\ \E m1, m2 \in DOMAIN messages :
       /\ messages[m1].user_id # NULL /\ messages[m1].status = "approved"
       /\ messages[m2].user_id = NULL /\ messages[m2].status = "pending"

(***************************************************************************)
(* Replies of a deleted comment or message                                 *)
(***************************************************************************)
\* the rows of S are gone together with the rows that referred to them:
\* ref[c] is the parent of row c before the step, ref2[c] after it
RepliesDeleted(ref, ref2, S) ==
  /\ S \cap DOMAIN ref2 = {}
  /\ \A c \in DOMAIN ref : ref[c] \in S => c \notin DOMAIN ref2
  /\ \A c \in DOMAIN ref2 : ref2[c] \notin S
CommentParent(cs) == [c \in DOMAIN cs |-> cs[c].parent_id]
MessageParent(ms) == [m \in DOMAIN ms |-> ms[m].reply_to_id]
\* every item of a batch that finds its row removes it with its replies:
\* rows(n) is the table after the first n items of the list
ItemsDeleteReplies(ids, commentRows) ==
  \A n \in 1..Len(ids) :
    LET prev == IF commentRows THEN CommentLoop(ids, n - 1, 0).rows
                               ELSE MessageLoop(ids, n - 1, 0).rows
        next == IF commentRows THEN CommentLoop(ids, n, 0).rows
                               ELSE MessageLoop(ids, n, 0).rows
    IN ids[n] \in DOMAIN prev
         => IF commentRows
              THEN RepliesDeleted(CommentParent(prev), CommentParent(next), {ids[n]})
              ELSE RepliesDeleted(MessageParent(prev), MessageParent(next), {ids[n]})

\* C14: a delete of a comment or of a message answered 200, alone or as an
\* item of a batch delete, removes the entity and every direct reply to it:
\* afterwards no stored comment has it as parent_id, no stored message as
\* reply_to_id, and the rows that were its replies are no longer stored.
C14_RepliesDeletedWithParent ==
  [][/\ \A u \in Callers, id \in ThreadIds :
          (Did("deleteComment") /\ deleteComment(u, id) /\ resp'.code = 200)
            => RepliesDeleted(CommentParent(comments), CommentParent(comments'), {id})
     /\ \A u \in Callers, id \in ThreadIds :
          (Did("deleteMessage") /\ deleteMessage(u, id) /\ resp'.code = 200)
            => RepliesDeleted(MessageParent(messages), MessageParent(messages'), {id})
     /\ \A ids \in ThreadLists :
          (Did("batchDeleteComments") /\ batchDeleteComments(AdminUser, ids, 0))
            => ItemsDeleteReplies(ids, TRUE)
     /\ \A ids \in ThreadLists :
          (Did("batchDeleteMessages") /\ batchDeleteMessages(AdminUser, ids, 0))
            => ItemsDeleteReplies(ids, FALSE)
    ]_vars

(***************************************************************************)
(* Depth of reply threads                                                  *)
(***************************************************************************)
\* every row of ref that names a parent names a stored row that names none
OneLevel(ref) ==
  \A c \in DOMAIN ref :
    ref[c] # NULL => (ref[c] \in DOMAIN ref /\ ref[ref[c]] = NULL)

\* C15: in every reachable state each comment with a parent_id refers to a
\* stored comment without parent_id, and each message with a reply_to_id to a
\* stored message without reply_to_id: no reply to a reply is stored.
C15_ThreadsOneLevelDeep ==
  OneLevel(CommentParent(comments)) /\ OneLevel(MessageParent(messages))

(***************************************************************************)
(* Draft articles                                                          *)
(***************************************************************************)
\* the caller may read article a whatever its status
MayReadDraft(u, a) == u.id = articles[a].author_id \/ u.role = "admin"

\* C16: the article list answers a caller who is not an admin with published
\* articles only, whatever status filter is passed, and never holds a draft
\* the caller is neither author nor admin of; get-by-id of a draft by a caller
\* who is neither its author nor an admin is answered 403, delivers nothing
\* and leaves the view counter, and every table, as it is.
C16_DraftHiddenFromStrangers ==
  [][/\ \A u \in Readers, st \in StatusFilter :
          (Did("getArticles") /\ getArticles(u, st, NoQuery))
            => /\ u.role # "admin"
                    => \A a \in resp'.items : articles[a].status = "published"
               /\ \A a \in resp'.items :
                    articles[a].status = "draft" => MayReadDraft(u, a)
     /\ \A u \in Readers, id \in Ids :
          (Did("getArticleById") /\ getArticleById(u, id)
           /\ id \in DOMAIN articles /\ articles[id].status = "draft"
           /\ ~MayReadDraft(u, id))
            => /\ resp'.code = 403
               /\ resp'.items = {}
               /\ UNCHANGED <<seq, tables>>
    ]_vars

\* a read of a draft has just been refused, the draft never counted as viewed
C16_Witness ==
  /\ resp.op = "getArticleById"
  /\ resp.code = 403
  /\ \E a \in DOMAIN articles : articles[a].status = "draft" /\ articles[a].views = 0

(***************************************************************************)
(* Unapproved comments                                                     *)
(***************************************************************************)
\* C17: the comment list of an article and the article detail deliver to a
\* caller who is not an admin no comment with is_approved = FALSE, neither as
\* an entry nor nested inside another entry.
C17_UnapprovedHiddenFromNonAdmin ==
  [][/\ \A u \in Readers :
          (Did("getCommentsByArticle") /\ getCommentsByArticle(u, 1)
           /\ u.role # "admin")
            => \A c \in resp'.items \cup resp'.nested : comments[c].is_approved
     /\ \A u \in Readers :
          (Did("getArticleById") /\ getArticleById(u, 1) /\ u.role # "admin")
            => \A c \in resp'.nested : comments[c].is_approved
    ]_vars

(***************************************************************************)
(* Flags reserved to the admin                                             *)
(***************************************************************************)
\* the step gives no flag a new value: stored rows keep theirs and a new row
\* comes with the flag off (flag[i] before, flag2[i] after)
FlagsKept(flag, flag2) ==
  /\ \A i \in DOMAIN flag \cap DOMAIN flag2 : flag2[i] = flag[i]
  /\ \A i \in DOMAIN flag2 \ DOMAIN flag : flag2[i] = FALSE
IsTop(as) == [a \in DOMAIN as |-> as[a].is_top]
IsFeatured(ps) == [p \in DOMAIN ps |-> ps[p].is_featured]
NonAdmins == {u \in Principals : u.role # "admin"}

\* C18: no request of a principal who is not an admin gives is_top of an
\* article or is_featured of a project a new value, whether it creates the
\* entity, updates it alone or updates a batch, and whether or not the
\* principal owns the entity.
C18_FlagsChangedByAdminOnly ==
  [][\A u \in NonAdmins :
       /\ \A top \in Opt(BOOLEAN) :
            (Did("createArticle") /\ createArticle(u, {}, {}, {}, top, Now))
              => FlagsKept(IsTop(articles), IsTop(articles'))
       /\ \A id \in Ids, top \in Opt(BOOLEAN) :
            (Did("updateArticle") /\ updateArticle(u, id, {}, {}, {}, top, Now))
              => FlagsKept(IsTop(articles), IsTop(articles'))
       /\ \A ids \in IdLists, top \in BOOLEAN :
            (Did("batchUpdateTop") /\ batchUpdateTop(u, ids, top))
              => FlagsKept(IsTop(articles), IsTop(articles'))
       /\ \A f \in Opt(BOOLEAN) :
            (Did("createProject") /\ createProject(u, {}, f))
              => FlagsKept(IsFeatured(projects), IsFeatured(projects'))
       /\ \A id \in Ids, f \in Opt(BOOLEAN) :
            (Did("updateProject") /\ updateProject(u, id, {}, f))
              => FlagsKept(IsFeatured(projects), IsFeatured(projects'))
       /\ \A ids \in IdLists, f \in BOOLEAN :
            (Did("batchUpdateFeatured") /\ batchUpdateFeatured(u, ids, f))
              => FlagsKept(IsFeatured(projects), IsFeatured(projects'))
    ]_vars

(***************************************************************************)
(* Pagination                                                              *)
(***************************************************************************)
\* what every paginated answer satisfies
PageInvariant(r) ==
  /\ Cardinality(r.items) <= r.limit
  /\ r.limit >= 1 /\ r.limit <= 100
  /\ r.page >= 1
  /\ r.totalPages * r.limit >= r.total
  /\ (r.totalPages - 1) * r.limit < r.total \/ (r.total = 0 /\ r.totalPages = 0)

\* C19: whatever page and limit are sent (absent, zero, negative, text,
\* over-large), a paginated list returns at most `limit` items for the limit
\* it reports, reports a limit between 1 and 100 and a page of at least 1, and
\* its totalPages is the least number of pages of that limit that hold total
\* rows.
C19_PaginationInvariant ==
  resp.op \in {"getArticles", "getProjects"} => PageInvariant(resp)

\* the second page of one article each has been read out of two articles
C19_Witness ==
  /\ resp.op = "getArticles"
  /\ resp.page = 2 /\ resp.limit = 1
  /\ resp.total = 2 /\ resp.totalPages = 2
  /\ Cardinality(resp.items) = 1


(***************************************************************************)
(* C20  View counters never go down                                        *)
(***************************************************************************)
\* the counter `counter` of every row of t kept by the step has not gone down
\* and is not negative
CounterKept(t, t2, counter) ==
  \A id \in DOMAIN t \cap DOMAIN t2 :
     t2[id][counter] >= t[id][counter] /\ t2[id][counter] >= 0

\* C20: under any interleaving of article reads, project view increments and
\* article and project updates, an update body carrying a view count included,
\* no step lowers an article's views or a project's view_count, and neither is
\* ever negative.
C20_ViewCountersNeverDecrease ==
  [][/\ CounterKept(articles, articles', "views")
     /\ CounterKept(projects, projects', "view_count")]_vars

\* a view of a project has been counted while an update of the same project,
\* which read the row before that view and has its status left to write, has
\* not written yet
C20_Witness ==
  /\ resp.op = "incrementView" /\ resp.code = 200
  /\ \E i \in DOMAIN pending :
        /\ pending[i].op = "updateProject"
        /\ pending[i].id \in resp.items
        /\ "status" \in DOMAIN pending[i].fields
        /\ pending[i].row.view_count < projects[pending[i].id].view_count


(***************************************************************************)
(* C21  A media record in use is never removed                             *)
(***************************************************************************)
InUse(id) == id \in DOMAIN media /\ media[id].usage_count > 0

\* C21: a media record whose usage_count is greater than 0 is never removed.
\* A single delete by a caller allowed to delete it answers 400 (403 for any
\* other caller) and leaves the record and its file in place; a batch delete
\* keeps the record and its file, reports it with a reason, and still deletes
\* the other records of the batch that the caller may delete and that are not
\* in use.
C21_UsedMediaNeverRemoved ==
  [][/\ \A id \in DOMAIN media :
          media[id].usage_count > 0 => id \in DOMAIN media' /\ (id \in files => id \in files')
     /\ \A u \in Callers, id \in Ids :
          (Did("deleteMedia") /\ InUse(id) /\ deleteMedia(u, id))
            => /\ resp'.code = IF canAct(u, media[id].uploader_id) THEN 400 ELSE 403
               /\ media' = media /\ files' = files
     /\ \A u \in Callers, ids \in IdLists :
          (Did("batchDeleteMedia") /\ (\E id \in Range(ids) : InUse(id))
           /\ batchDeleteMedia(u, ids, NULL))
            => /\ resp'.code = 200
               /\ \A id \in Range(ids) :
                    InUse(id) => \E e \in resp'.errors : e.id = id
               /\ \A id \in Range(ids) \cap DOMAIN media :
                    (canAct(u, media[id].uploader_id) /\ ~InUse(id))
                      => id \notin DOMAIN media'
               /\ resp'.count = Cardinality(DOMAIN media \ DOMAIN media')]_vars

\* a batch delete has skipped a record in use with a reason and deleted the
\* other record of the batch
C21_Witness ==
  /\ resp.op = "batchDeleteMedia" /\ resp.code = 200 /\ resp.count = 1
  /\ \E id \in DOMAIN media :
        /\ media[id].usage_count > 0
        /\ id \in files
        /\ Err(id, "in use") \in resp.errors


(***************************************************************************)
(* C22  A list returns the page that was asked for                         *)
(***************************************************************************)
\* page and limit as the caller supplied them, absent ones at their default
Asked(v, d) == IF Present(v) THEN Val(v).n ELSE d
\* paginationValidation: page an integer from 1, limit an integer of 1..100
ValidQuery(q) ==
  /\ Present(q.page) => ~Val(q.page).text /\ Val(q.page).n >= 1
  /\ Present(q.limit) => ~Val(q.limit).text /\ Val(q.limit).n >= 1 /\ Val(q.limit).n <= 100

\* ORDER BY is_featured DESC, display_order DESC, created_at DESC, every
\* project at the default display_order: the later id was created later
ProjectBefore(a, b) ==
  \/ projects[a].is_featured /\ ~projects[b].is_featured
  \/ projects[a].is_featured = projects[b].is_featured /\ a > b
\* the rows of the ordered result at positions offset + 1 .. offset + limit
ProjectPage(rows, limit, offset) ==
  {r \in rows : LET pos == 1 + Cardinality({x \in rows : ProjectBefore(x, r)})
                IN offset < pos /\ pos <= offset + limit}

\* C22: for every valid page p and limit l the caller supplies, a list answers
\* with page = p and limit = l and exactly the items at positions (p-1)*l+1
\* through p*l of the filtered, ordered result; a value that is not supplied
\* is the first page, and the limit the answer reports.
C22_ListReturnsAskedPage ==
  [][/\ \A u \in {AdminUser, NoUser}, st \in StatusFilter,
          q \in {v \in Queries : ValidQuery(v)} :
          (Did("getArticles") /\ getArticles(u, st, q))
            => LET p == Asked(q.page, 1)
                   l == Asked(q.limit, resp'.limit)
                   shown == IF Present(st) /\ u.role = "admin" THEN Val(st) ELSE "published"
                   rows == {a \in DOMAIN articles : articles[a].status = shown}
               IN /\ resp'.page = p /\ resp'.limit = l
                  /\ resp'.items \in ArticlePages(rows, l, (p - 1) * l)
     /\ \A u \in {AdminUser, NoUser}, q \in {v \in Queries : projectQueryValidation(v)} :
          (Did("getProjects") /\ getProjects(u, {}, q))
            => LET p == Asked(q.page, 1)
                   l == Asked(q.limit, resp'.limit)
                   rows == {i \in DOMAIN projects :
                              u.role # "admin" => projects[i].status = "completed"}
               IN /\ resp'.page = p /\ resp'.limit = l
                  /\ resp'.items = ProjectPage(rows, l, (p - 1) * l)]_vars

\* the article list alone returns the page that was asked for
C22_ArticleListReturnsAskedPage ==
  [][\A u \in {AdminUser, NoUser}, st \in StatusFilter,
          q \in {v \in Queries : ValidQuery(v)} :
          (Did("getArticles") /\ getArticles(u, st, q))
            => LET p == Asked(q.page, 1)
                   l == Asked(q.limit, resp'.limit)
                   shown == IF Present(st) /\ u.role = "admin" THEN Val(st) ELSE "published"
                   rows == {a \in DOMAIN articles : articles[a].status = shown}
               IN /\ resp'.page = p /\ resp'.limit = l
                  /\ resp'.items \in ArticlePages(rows, l, (p - 1) * l)]_vars


(***************************************************************************)
(* C23  Category order update                                              *)
(***************************************************************************)
\* the positions of `orders` that name the category id
Named(orders, id) == {i \in DOMAIN orders : orders[i].id = id}
\* the value of the last pair of `orders` that names id
LastOrder(orders, id) ==
  orders[CHOOSE i \in Named(orders, id) : \A j \in Named(orders, id) : j <= i].sort_order

\* the update succeeds with every pair applied: last pair of an id wins,
\* categories not named are unchanged, updated_count is the number of pairs
OrdersApplied(orders) ==
  /\ resp'.code = 200
  /\ resp'.count = Len(orders)
  /\ DOMAIN categories' = DOMAIN categories
  /\ \A c \in DOMAIN categories :
        categories'[c].sort_order =
          IF Named(orders, c) # {} THEN LastOrder(orders, c) ELSE categories[c].sort_order

\* C23: a non-empty list of (id, sort_order) pairs whose ids all name existing
\* categories, the same id in more than one pair included, is applied pair by
\* pair: afterwards each named category has the value of its last pair, the
\* others are unchanged and updated_count is the number of pairs; when some id
\* names no category the request is rejected and no sort_order changes.
C23_OrderUpdateApplied ==
  [][\A orders \in Orders :
       (Did("batchUpdateOrder") /\ batchUpdateOrder(AdminUser, orders, "none"))
         => IF \A i \in DOMAIN orders : orders[i].id \in DOMAIN categories
              THEN OrdersApplied(orders)
              ELSE resp'.code = 400 /\ categories' = categories]_vars

\* the same for the lists that name no id twice
C23_DistinctOrderUpdateApplied ==
  [][\A orders \in Orders :
       (Did("batchUpdateOrder") /\ batchUpdateOrder(AdminUser, orders, "none")
        /\ \A i, j \in DOMAIN orders : orders[i].id = orders[j].id => i = j)
         => IF \A i \in DOMAIN orders : orders[i].id \in DOMAIN categories
              THEN OrdersApplied(orders)
              ELSE resp'.code = 400 /\ categories' = categories]_vars


(***************************************************************************)
(* C24  A single update changes only the fields of the request             *)
(***************************************************************************)
\* the update answered an error and every table is as it was
RejectedWhole == resp'.code # 200 => tables' = tables

\* the article update kept every field that its request did not carry
ArticleFieldsKept(id, c, ts, st, top) ==
  resp'.code = 200 =>
    /\ ~Present(c) => articles'[id].category_id = articles[id].category_id
    /\ ~Present(top) => articles'[id].is_top = articles[id].is_top
    /\ ~Present(st) => /\ articles'[id].status = articles[id].status
                       /\ articles'[id].published_at = articles[id].published_at
    /\ ~Present(ts) => article_tags' = article_tags
    /\ articles'[id].views = articles[id].views
    /\ articles'[id].author_id = articles[id].author_id

MomentFieldsKept(id, c, n, v) ==
  resp'.code = 200 =>
    /\ ~Present(c) => moments'[id].content = moments[id].content
    /\ ~Present(n) => moments'[id].images = moments[id].images
    /\ ~Present(v) => moments'[id].visibility = moments[id].visibility
    /\ moments'[id].is_pinned = moments[id].is_pinned
    /\ moments'[id].user_id = moments[id].user_id

ProjectFieldsKept(id, st, f) ==
  resp'.code = 200 =>
    /\ ~Present(st) => projects'[id].status = projects[id].status
    /\ ~Present(f) => projects'[id].is_featured = projects[id].is_featured
    /\ projects'[id].view_count = projects[id].view_count
    /\ projects'[id].author_id = projects[id].author_id

\* C24: a single update of an article, a moment or a project changes only the
\* fields present in the request: every absent field keeps its value (the tag
\* set of an article when tag_ids is absent), and an update that is answered
\* with an error persists nothing, the fields it had accepted before the
\* error included.
C24_UpdateChangesOnlyRequestFields ==
  [][/\ \A id \in Ids, c \in NumCategory, ts \in TagSets, st \in Opt({"published"}),
          top \in Opt({TRUE}) :
          (Did("updateArticle") /\ updateArticle(AdminUser, id, c, ts, st, top, Now))
            => ArticleFieldsKept(id, c, ts, st, top) /\ RejectedWhole
     /\ \A id \in Ids, c \in Opt({"", "b"}), n \in Opt(ImageCounts), v \in Opt({"private"}) :
          (Did("updateMoment") /\ updateMoment(AdminUser, id, c, n, v))
            => MomentFieldsKept(id, c, n, v) /\ RejectedWhole
     /\ \A id \in Ids, st \in Opt({"completed"}), f \in Opt({TRUE}) :
          (Did("updateProject") /\ updateProject(AdminUser, id, st, f))
            => ProjectFieldsKept(id, st, f) /\ RejectedWhole]_vars

\* the same, the article updates whose tag_ids name a missing tag left out
C24_UpdateWithStoredTagsChangesOnlyRequestFields ==
  [][/\ \A id \in Ids, c \in NumCategory, ts \in TagSets, st \in Opt({"published"}),
          top \in Opt({TRUE}) :
          (Did("updateArticle") /\ (Present(ts) => Val(ts) \subseteq DOMAIN tags)
           /\ updateArticle(AdminUser, id, c, ts, st, top, Now))
            => ArticleFieldsKept(id, c, ts, st, top) /\ RejectedWhole
     /\ \A id \in Ids, c \in Opt({"", "b"}), n \in Opt(ImageCounts), v \in Opt({"private"}) :
          (Did("updateMoment") /\ updateMoment(AdminUser, id, c, n, v))
            => MomentFieldsKept(id, c, n, v) /\ RejectedWhole
     /\ \A id \in Ids, st \in Opt({"completed"}), f \in Opt({TRUE}) :
          (Did("updateProject") /\ updateProject(AdminUser, id, st, f))
            => ProjectFieldsKept(id, st, f) /\ RejectedWhole]_vars


(***************************************************************************)
(* C25  Category removal under concurrency                                 *)
(***************************************************************************)
\* the categories that a step removes
RemovedCategories == DOMAIN categories \ DOMAIN categories'

\* C25 (first part): under any interleaving of category deletes, batch
\* deletes and merges with article creates and updates, no article is left
\* with a category_id that names a removed category.
C25_NoArticleInRemovedCategory ==
  [][\A a \in DOMAIN articles' : CategoryFkOk(articles'[a].category_id, categories')]_vars

\* C25: under any interleaving, no article is left with a category_id that
\* names a removed category, and a removal does not act on a stale view: a
\* delete or batch delete removes no category that an article has taken since
\* the count, and a merge points every article of its sources to its target.
C25_CategoryRemovalNotStale ==
  [][/\ \A a \in DOMAIN articles' : CategoryFkOk(articles'[a].category_id, categories')
     /\ \A i \in DOMAIN pending :
          (Did(pending[i].op) /\ FinishCategory(i) /\ resp'.code = 200)
            => \A a \in DOMAIN articles :
                 articles[a].category_id \in RemovedCategories
                   => /\ pending[i].op = "batchMergeCategories"
                      /\ articles'[a].category_id = pending[i].target]_vars


(***************************************************************************)
(* C26  published_at under concurrent publishing                           *)
(***************************************************************************)
\* C26: under any interleaving of a batch status update to published with a
\* single update or another batch update that publishes the same article, a
\* published_at written non-null by one request is not overwritten by the
\* batch: the batch does not decide to stamp on rows read before its
\* transaction.
C26_PublishedAtNotOverwritten ==
  [][\A i \in DOMAIN pending, t \in Times :
       (Did("articleBatchUpdateStatus") /\ pending[i].op = "articleBatchUpdateStatus"
        /\ FinishArticleBatch(i, t))
         => \A a \in DOMAIN articles \cap DOMAIN articles' :
              articles[a].published_at # NULL
                => articles'[a].published_at = articles[a].published_at]_vars


(***************************************************************************)
(* C27  An error answer of a transactional batch persists nothing          *)
(***************************************************************************)
\* C27: whenever a category order update or a tag colour update (and, built
\* the same way, a tag merge or a category merge) answers with an error, no
\* change of that request is persisted: a failure of the read that follows
\* the commit gives no error answer to a request whose writes were committed.
C27_ErrorAnswerPersistsNothing ==
  [][/\ \A orders \in Orders, fail \in Failures :
          (Did("batchUpdateOrder") /\ batchUpdateOrder(AdminUser, orders, fail)
           /\ resp'.code # 200) => tables' = tables
     /\ \A ids \in IdLists, fail \in Failures :
          (Did("batchUpdateTagColor") /\ batchUpdateTagColor(AdminUser, ids, "#111111", fail)
           /\ resp'.code # 200) => tables' = tables]_vars

\* the same when the read that follows the commit does not fail
C27_ErrorBeforeCommitPersistsNothing ==
  [][/\ \A orders \in Orders, fail \in Failures \ {"reload"} :
          (Did("batchUpdateOrder") /\ batchUpdateOrder(AdminUser, orders, fail)
           /\ resp'.code # 200) => tables' = tables
     /\ \A ids \in IdLists, fail \in Failures \ {"reload"} :
          (Did("batchUpdateTagColor") /\ batchUpdateTagColor(AdminUser, ids, "#111111", fail)
           /\ resp'.code # 200) => tables' = tables]_vars


(***************************************************************************)
(* C28  Every transaction of a batch handler is finished exactly once      *)
(***************************************************************************)
TxHandlers == {"batchDeleteMoments", "batchDeleteProjects", "projectBatchUpdateStatus"}

\* C28: the transaction opened by a batch handler of moments or projects is
\* finished, by a commit or by a rollback and by one of them only, when the
\* answer is sent, on every path through the handler.
C28_TransactionFinishedOnce ==
  resp.op \in TxHandlers => resp.tx \in {"commit", "rollback"}

\* the same on the paths other than the refusal of the status value
C28_TransactionFinishedOnceValidStatus ==
  (resp.op \in TxHandlers /\ ~(resp.op = "projectBatchUpdateStatus" /\ resp.code = 400))
    => resp.tx \in {"commit", "rollback"}

(***************************************************************************)
(* Likes of a message                                                      *)
(***************************************************************************)
\* C29 Every like answered with success adds one to the stored likes value of
\* its message, whatever other likes run between its read and its save (so n
\* successful likes leave the prior value plus n).
C29_EveryLikeCounts ==
  [][\A i \in 1..MaxPending :
       (Did("likeMessage") /\ likeMessageSave(i) /\ resp'.code = 200
          /\ pending[i].id \in DOMAIN messages)
         => messages'[pending[i].id].likes = messages[pending[i].id].likes + 1]_vars

\* Holds apart: a like whose message was not written since it was read adds one
C29_UndisturbedLikeCounts ==
  [][\A i \in 1..MaxPending :
       (Did("likeMessage") /\ likeMessageSave(i) /\ resp'.code = 200
          /\ pending[i].id \in DOMAIN messages
          /\ messages[pending[i].id] = pending[i].row)
         => messages'[pending[i].id].likes = messages[pending[i].id].likes + 1]_vars

(***************************************************************************)
(* Ownership                                                               *)
(***************************************************************************)
\* the rows stored before and after the step keep the value of their owner field
OwnerKept(t, t2, owner) ==
  \A id \in DOMAIN t \cap DOMAIN t2 : t2[id][owner] = t[id][owner]

\* C30: the owner field of an article, project, moment, media record, comment
\* or message is the id of the principal that created it, and no later step
\* changes it, whatever the body of an update carries and whoever sends it.
C30_OwnershipFixed ==
  [][/\ OwnerKept(articles, articles', "author_id")
     /\ OwnerKept(projects, projects', "author_id")
     /\ OwnerKept(moments, moments', "user_id")
     /\ OwnerKept(media, media', "uploader_id")
     /\ OwnerKept(comments, comments', "user_id")
     /\ OwnerKept(messages, messages', "user_id")
     /\ \A u \in Authors :
          /\ (Did("createArticle") /\ createArticle(u, {}, {}, {"published"}, {}, Now))
               => \A id \in DOMAIN articles' \ DOMAIN articles :
                    articles'[id].author_id = u.id
          /\ (Did("createProject") /\ createProject(u, {"completed"}, {}))
               => \A id \in DOMAIN projects' \ DOMAIN projects :
                    projects'[id].author_id = u.id
          /\ (Did("createMoment") /\ createMoment(u, "a", {}))
               => \A id \in DOMAIN moments' \ DOMAIN moments : moments'[id].user_id = u.id
          /\ (Did("uploadMedia") /\ uploadMedia(u, "a"))
               => \A id \in DOMAIN media' \ DOMAIN media : media'[id].uploader_id = u.id
          /\ \A a \in Ids :
               (Did("createComment") /\ createComment(u, a, {}, "a"))
                 => \A id \in DOMAIN comments' \ DOMAIN comments :
                      comments'[id].user_id = u.id
          /\ (Did("createMessage") /\ createMessage(u, {}, "a", {}))
               => \A id \in DOMAIN messages' \ DOMAIN messages :
                    messages'[id].user_id = u.id
    ]_vars

\* the admin's update of a project of user 3 has been written (the status of
\* its body is stored) and the project is still user 3's
C30_Witness ==
  /\ resp.op = "updateProject"
  /\ resp.code = 200
  /\ \E id \in resp.items :
       /\ id \in DOMAIN projects
       /\ projects[id].author_id = 3
       /\ projects[id].status = "draft"

==============================================================================
